---- MODULE Spec2Model ----
(***************************************************************************)
(* Generators, solvers and win checks of the NP-hard puzzle games.         *)
(* Arrays of the source are 0-based: they are modelled as functions over   *)
(* 0..len-1 where the code indexes them by node id, and as sequences       *)
(* (1-based) where the code only pushes to them and iterates them.         *)
(***************************************************************************)
EXTENDS Integers, Sequences, FiniteSets, TLC

\* Largest node count the graph solvers and generators are run on.
MaxNodes == 4

\* The value null of an integer-valued result (best, k).
null == -1

\* The value null of an array-valued result (coloring, cycle).
nullArr == <<>>

VARIABLES
    game,      \* the module whose code is running
    pc,        \* position inside the running call or round
    graph,     \* the instance: the call's argument, or the game's graph state
    out,       \* the value returned by the last call
    attempt,   \* the loop counter of a generator's retry loop
    correct,   \* the witness the component keeps for the instance (useMemo)
    selected,  \* the player's selection
    score,
    highScore,
    timeLeft,
    gameOver,
    showCorrect,
    showHelp,
    hasInteracted,  \* the 3-SAT game's flag: a toggle since the last win or formula
    errorFlash,     \* the flash of a click at the selection limit
    blockedEdgeIdx, \* the independent set game's conflict edge, or null
    pending    \* startNext calls scheduled by setTimeout and not yet run

\* The state of a game component.
ui == <<selected, score, highScore, timeLeft, gameOver, showCorrect, showHelp,
       hasInteracted, errorFlash, blockedEdgeIdx, pending>>

vars == <<game, pc, graph, out, attempt, correct, ui>>

\* No component is mounted: the state of the runs that only call a function.
NoComponent ==
    /\ selected = <<>>
    /\ score = 0
    /\ highScore = 0
    /\ timeLeft = 0
    /\ gameOver = FALSE
    /\ showCorrect = FALSE
    /\ showHelp = FALSE
    /\ errorFlash = FALSE
    /\ blockedEdgeIdx = null
    /\ hasInteracted = FALSE
    /\ pending = 0

----------------------------------------------------------------------------
\* Helpers for arrays.

Range(s) == {s[k] : k \in 1..Len(s)}

Edge(a, b) == [u |-> a, v |-> b]

\* const sel = []; for (i = 0; i < n; i++) if (mask & (1 << i)) sel.push(i);
RECURSIVE maskSel(_, _, _)
maskSel(n, mask, i) ==
    IF i >= n THEN <<>>
    ELSE IF (mask \div (2 ^ i)) % 2 = 1
         THEN <<i>> \o maskSel(n, mask, i + 1)
         ELSE maskSel(n, mask, i + 1)

\* sel.includes(x)
includes(sel, x) == \E k \in 1..Len(sel) : sel[k] = x

\* adj = Array.from({length: n}, () => new Set()); edges.forEach(add both ways).
\* A Set keeps insertion order and ignores a value it already holds.
RECURSIVE adjSets(_, _, _)
adjSets(edges, k, adj) ==
    IF k > Len(edges) THEN adj
    ELSE LET e == edges[k]
             a1 == [adj EXCEPT ![e.u] = IF includes(@, e.v) THEN @ ELSE Append(@, e.v)]
             a2 == [a1 EXCEPT ![e.v] = IF includes(@, e.u) THEN @ ELSE Append(@, e.u)]
         IN adjSets(edges, k + 1, a2)

\* adj = Array.from({length: n}, () => []); edges.forEach(push both ways).
RECURSIVE adjArrays(_, _, _)
adjArrays(edges, k, adj) ==
    IF k > Len(edges) THEN adj
    ELSE LET e == edges[k]
             a1 == [adj EXCEPT ![e.u] = Append(@, e.v)]
             a2 == [a1 EXCEPT ![e.v] = Append(@, e.u)]
         IN adjArrays(edges, k + 1, a2)

\* Mutant: a pair is never found in the edge list.
mutHasPair(edges, a, b) == FALSE

\* edges.some(e => (e.u === a && e.v === b) || (e.u === b && e.v === a))
hasPair(edges, a, b) ==
    \E k \in 1..Len(edges) :
        \/ edges[k].u = a /\ edges[k].v = b
        \/ edges[k].u = b /\ edges[k].v = a

emptyAdj(n) == [i \in 0..(n - 1) |-> <<>>]

\* Mutant: the help overlay does not stop a click.
mutClickIgnored(over, help) == over

\* if (gameOver || showHelp) return;  (handleNodeClick, handleToggle)
clickIgnored(over, help) == over \/ help

----------------------------------------------------------------------------
\* Vertex cover solvers (VertexCoverGame.jsx, GraphUtils.js).

\* edges.every(({u, v}) => sel.includes(u) || sel.includes(v))
coversAll(edges, sel) ==
    \A k \in 1..Len(edges) : includes(sel, edges[k].u) \/ includes(sel, edges[k].v)

\* for (mask = 0; mask < 1 << n; mask++) over the masks mask..end-1, best being
\* the value the passes before have left.  A range of several masks is run as
\* its first half followed by its second half, which keeps the evaluation
\* shallow; the comparison of first forces the first half before the second.
RECURSIVE vcSizeLoop(_, _, _, _, _)
vcSizeLoop(n, edges, mask, end, best) ==
    IF mask >= end THEN best
    ELSE IF end - mask > 1
    THEN LET mid == (mask + end) \div 2
             first == vcSizeLoop(n, edges, mask, mid, best)
         IN IF first = null
            THEN vcSizeLoop(n, edges, mid, end, first)
            ELSE vcSizeLoop(n, edges, mid, end, first)
    ELSE LET sel == maskSel(n, mask, 0) IN
         IF best # null /\ Len(sel) >= best
         THEN best
         ELSE IF coversAll(edges, sel)
              THEN Len(sel)
              ELSE best

\* Mutant: the size of the first cover met from the full set downwards, that is
\* a solver that forgot to compare a cover with the best one so far.
mutFindMinVertexCover(n, edges) ==
    LET found == {m \in 0..(2 ^ n - 1) : coversAll(edges, maskSel(n, m, 0))}
    IN IF found = {} THEN null
       ELSE Len(maskSel(n, CHOOSE m \in found : \A m2 \in found : m2 <= m, 0))

findMinVertexCover(n, edges) == vcSizeLoop(n, edges, 0, 2 ^ n, null)

\* The copy of the solver in GraphUtils.js.
RECURSIVE guSizeLoop(_, _, _, _)
guSizeLoop(n, edges, mask, best) ==
    IF mask >= 2 ^ n THEN best
    ELSE LET sel == maskSel(n, mask, 0) IN
         IF best # null /\ Len(sel) >= best
         THEN guSizeLoop(n, edges, mask + 1, best)
         ELSE IF coversAll(edges, sel)
              THEN guSizeLoop(n, edges, mask + 1, Len(sel))
              ELSE guSizeLoop(n, edges, mask + 1, best)

utilsFindMinVertexCover(n, edges) == guSizeLoop(n, edges, 0, null)

\* best starts at Infinity: best = null stands for it (every length is below it).
RECURSIVE vcNodesLoop(_, _, _, _, _)

\* Mutant: every cover replaces the kept one, whatever its size.
mutVcNodesLoop(n, edges, mask, best, bestSel) ==
    IF mask >= 2 ^ n THEN bestSel
    ELSE LET sel == maskSel(n, mask, 0) IN
         IF coversAll(edges, sel)
         THEN vcNodesLoop(n, edges, mask + 1, Len(sel), sel)
         ELSE vcNodesLoop(n, edges, mask + 1, best, bestSel)

vcNodesLoop(n, edges, mask, best, bestSel) ==
    IF mask >= 2 ^ n THEN bestSel
    ELSE LET sel == maskSel(n, mask, 0) IN
         IF best # null /\ Len(sel) > best
         THEN vcNodesLoop(n, edges, mask + 1, best, bestSel)
         ELSE IF coversAll(edges, sel) /\ (best = null \/ Len(sel) < best)
              THEN vcNodesLoop(n, edges, mask + 1, Len(sel), sel)
              ELSE vcNodesLoop(n, edges, mask + 1, best, bestSel)

\* return new Set(bestSel)
getMinVertexCoverNodes(n, edges) == Range(vcNodesLoop(n, edges, 0, null, <<>>))

----------------------------------------------------------------------------
\* Independent set solver (IndependentSetGame.jsx).

\* edges.every(({u, v}) => !(sel.has(u) && sel.has(v)))
independent(edges, sel) ==
    \A k \in 1..Len(edges) : ~(edges[k].u \in sel /\ edges[k].v \in sel)

RECURSIVE misLoop(_, _, _, _)

\* Mutant: the pruning test of the cover solver (>=) copied into the maximising loop.
mutMisLoop(n, edges, mask, best) ==
    IF mask >= 2 ^ n THEN best
    ELSE LET sel == Range(maskSel(n, mask, 0)) IN
         IF Cardinality(sel) >= Cardinality(best)
         THEN misLoop(n, edges, mask + 1, best)
         ELSE IF independent(edges, sel)
              THEN misLoop(n, edges, mask + 1, sel)
              ELSE misLoop(n, edges, mask + 1, best)

misLoop(n, edges, mask, best) ==
    IF mask >= 2 ^ n THEN best
    ELSE LET sel == Range(maskSel(n, mask, 0)) IN
         IF Cardinality(sel) <= Cardinality(best)
         THEN misLoop(n, edges, mask + 1, best)
         ELSE IF independent(edges, sel)
              THEN misLoop(n, edges, mask + 1, sel)
              ELSE misLoop(n, edges, mask + 1, best)

getMaxIndependentSetNodes(n, edges) == misLoop(n, edges, 0, {})

----------------------------------------------------------------------------
\* Clique solvers (the CliqueGame module, second half of HamCycleGame.jsx).

\* the nested i < j loop over sel with adj[sel[i]].has(sel[j])
isCliqueSel(adj, sel) ==
    \A i \in 1..Len(sel) : \A j \in (i + 1)..Len(sel) : includes(adj[sel[i]], sel[j])

RECURSIVE cliqueSizeLoop(_, _, _, _)
cliqueSizeLoop(n, adj, mask, best) ==
    IF mask >= 2 ^ n THEN best
    ELSE LET sel == maskSel(n, mask, 0) IN
         IF Len(sel) <= best
         THEN cliqueSizeLoop(n, adj, mask + 1, best)
         ELSE IF isCliqueSel(adj, sel)
              THEN cliqueSizeLoop(n, adj, mask + 1, Len(sel))
              ELSE cliqueSizeLoop(n, adj, mask + 1, best)

\* findMinVertexCover of the clique game: "now returns maximum clique size".
cliqueFindMinVertexCover(n, edges) ==
    cliqueSizeLoop(n, adjSets(edges, 1, emptyAdj(n)), 0, 0)

RECURSIVE cliqueNodesLoop(_, _, _, _, _)
cliqueNodesLoop(n, adj, mask, best, bestSel) ==
    IF mask >= 2 ^ n THEN bestSel
    ELSE LET sel == maskSel(n, mask, 0) IN
         IF Len(sel) < best
         THEN cliqueNodesLoop(n, adj, mask + 1, best, bestSel)
         ELSE IF isCliqueSel(adj, sel) /\ Len(sel) > best
              THEN cliqueNodesLoop(n, adj, mask + 1, Len(sel), sel)
              ELSE cliqueNodesLoop(n, adj, mask + 1, best, bestSel)

\* getMinVertexCoverNodes of the clique game: the maximum clique node set.
cliqueGetMinVertexCoverNodes(n, edges) ==
    Range(cliqueNodesLoop(n, adjSets(edges, 1, emptyAdj(n)), 0, 0, <<>>))

----------------------------------------------------------------------------
\* 3-colouring solver (ThreeColorGame.jsx).  colors is one array shared by
\* all recursive calls: a failed call hands back the array as it left it.

RECURSIVE colorDfs(_, _, _, _, _), colorTry(_, _, _, _, _, _)
colorDfs(n, adj, maxColors, node, colors) ==
    IF node = n THEN [ok |-> TRUE, colors |-> colors]
    ELSE colorTry(n, adj, maxColors, node, 0, colors)

\* Mutant: a colour is taken without looking at the neighbours.
mutColorTry(n, adj, maxColors, node, c, colors) ==
    IF c >= maxColors THEN [ok |-> FALSE, colors |-> colors]
    ELSE LET r == colorDfs(n, adj, maxColors, node + 1, [colors EXCEPT ![node] = c])
         IN IF r.ok THEN r
            ELSE colorTry(n, adj, maxColors, node, c + 1, r.colors)

colorTry(n, adj, maxColors, node, c, colors) ==
    IF c >= maxColors THEN [ok |-> FALSE, colors |-> colors]
    ELSE IF \A k \in 1..Len(adj[node]) : colors[adj[node][k]] # c
         THEN LET r == colorDfs(n, adj, maxColors, node + 1, [colors EXCEPT ![node] = c])
              IN IF r.ok THEN r
                 ELSE colorTry(n, adj, maxColors, node, c + 1, r.colors)
         ELSE colorTry(n, adj, maxColors, node, c + 1, colors)

find3Coloring(n, edges, maxColors) ==
    LET r == colorDfs(n, adjArrays(edges, 1, emptyAdj(n)), maxColors, 0,
                      [i \in 0..(n - 1) |-> 0])
    IN IF r.ok THEN r.colors ELSE nullArr

----------------------------------------------------------------------------
\* Hamiltonian cycle solver (HamCycleGame.jsx).  used[v] is true exactly for
\* the nodes on path (set on push, cleared on pop), so it is read off path.

RECURSIVE hamDfs(_, _, _, _, _), hamFor(_, _, _, _, _, _)

\* Mutant: a path through all nodes is accepted without the closing edge.
mutHamDfs(n, adj, u, depth, path) ==
    LET path1 == Append(path, u) IN
    IF depth = n
    THEN [ok |-> TRUE, path |-> path1]
    ELSE LET r == hamFor(n, adj, u, depth, path1, 1)
         IN IF r.ok THEN r ELSE [ok |-> FALSE, path |-> path]

hamDfs(n, adj, u, depth, path) ==
    LET path1 == Append(path, u) IN
    IF depth = n
    THEN IF includes(adj[u], path1[1])
         THEN [ok |-> TRUE, path |-> path1]
         ELSE [ok |-> FALSE, path |-> path]
    ELSE LET r == hamFor(n, adj, u, depth, path1, 1)
         IN IF r.ok THEN r ELSE [ok |-> FALSE, path |-> path]

\* for (let v of adj[u]) if (!used[v] && dfs(v, depth + 1)) return true;
hamFor(n, adj, u, depth, path1, k) ==
    IF k > Len(adj[u]) THEN [ok |-> FALSE, path |-> path1]
    ELSE LET v == adj[u][k] IN
         IF includes(path1, v) THEN hamFor(n, adj, u, depth, path1, k + 1)
         ELSE LET r == hamDfs(n, adj, v, depth + 1, path1)
              IN IF r.ok THEN r ELSE hamFor(n, adj, u, depth, path1, k + 1)

RECURSIVE hamStart(_, _, _)
hamStart(n, adj, start) ==
    IF start >= n THEN nullArr
    ELSE LET r == hamDfs(n, adj, start, 1, <<>>)
         IN IF r.ok THEN r.path ELSE hamStart(n, adj, start + 1)

findHamiltonianCycle(n, edges) == hamStart(n, adjSets(edges, 1, emptyAdj(n)), 0)

----------------------------------------------------------------------------
\* The solvers called on an arbitrary graph.

\* The pairs (i, j), i < j, in the order of the generators' nested loops.
RECURSIVE pairsFrom(_, _, _)
pairsFrom(n, i, j) ==
    IF i >= n THEN <<>>
    ELSE IF j >= n THEN pairsFrom(n, i + 1, i + 2)
    ELSE <<Edge(i, j)>> \o pairsFrom(n, i, j + 1)

allPairs(n) == pairsFrom(n, 0, 1)

\* The edges of ps whose index is in keep, in the order of ps.
RECURSIVE pick(_, _, _)
pick(ps, keep, k) ==
    IF k > Len(ps) THEN <<>>
    ELSE IF k \in keep THEN <<ps[k]>> \o pick(ps, keep, k + 1)
    ELSE pick(ps, keep, k + 1)

Solvers == {"findMinVertexCover", "utilsFindMinVertexCover", "getMinVertexCoverNodes",
            "getMaxIndependentSetNodes", "cliqueFindMinVertexCover",
            "cliqueGetMinVertexCoverNodes", "find3Coloring", "findHamiltonianCycle"}

InitSolve ==
    /\ game = "solver"
    /\ pc = "call"
    /\ \E n \in 1..MaxNodes : \E keep \in SUBSET (1..Len(allPairs(n))) :
           graph = [n |-> n, edges |-> pick(allPairs(n), keep, 1)]
    /\ out = [fn |-> "none"]
    /\ attempt = 0
    /\ correct = {}
    /\ NoComponent

Call(fn, value) ==
    /\ game = "solver"
    /\ pc = "call"
    /\ pc' = "returned"
    /\ out' = [fn |-> fn, value |-> value]
    /\ UNCHANGED <<game, graph, attempt, correct, ui>>

CallFindMinVertexCover == Call("findMinVertexCover", findMinVertexCover(graph.n, graph.edges))

CallUtilsFindMinVertexCover ==
    Call("utilsFindMinVertexCover", utilsFindMinVertexCover(graph.n, graph.edges))

CallGetMinVertexCoverNodes ==
    Call("getMinVertexCoverNodes", getMinVertexCoverNodes(graph.n, graph.edges))

CallGetMaxIndependentSetNodes ==
    Call("getMaxIndependentSetNodes", getMaxIndependentSetNodes(graph.n, graph.edges))

CallCliqueFindMinVertexCover ==
    Call("cliqueFindMinVertexCover", cliqueFindMinVertexCover(graph.n, graph.edges))

CallCliqueGetMinVertexCoverNodes ==
    Call("cliqueGetMinVertexCoverNodes", cliqueGetMinVertexCoverNodes(graph.n, graph.edges))

CallFind3Coloring == Call("find3Coloring", find3Coloring(graph.n, graph.edges, 3))

CallFindHamiltonianCycle ==
    Call("findHamiltonianCycle", findHamiltonianCycle(graph.n, graph.edges))

NextSolve ==
    \/ CallFindMinVertexCover
    \/ CallUtilsFindMinVertexCover
    \/ CallGetMinVertexCoverNodes
    \/ CallGetMaxIndependentSetNodes
    \/ CallCliqueFindMinVertexCover
    \/ CallCliqueGetMinVertexCoverNodes
    \/ CallFind3Coloring
    \/ CallFindHamiltonianCycle

SpecSolve == InitSolve /\ [][NextSolve]_vars

----------------------------------------------------------------------------
\* Graph generators.

\* Largest node count generatePlanarGraph is run on.
MaxPlanarNodes == 5

\* const maxAttempts = 10 (generateGraph of the three subset games)
maxAttempts == 10

\* const maxAttempts = 20 (generate3ColorableGraph, generateHamiltonianGraph)
maxAttempts20 == 20

\* const minDist = 100 (generatePlanarGraph)
minDist == 100

\* Node counts the random source yields (the source draws 6..9, 8..11 or 5..8).
NodeCounts == 2..MaxNodes

PlanarNodeCounts == 3..MaxPlanarNodes

\* Array.from({length: nodeCount}, (_, i) => ({id: i}))
idNodes(n) == [i \in 0..(n - 1) |-> [id |-> i]]

\* The result of the nested loop that keeps each pair (i, j) on a coin flip:
\* any subsequence of the pairs in loop order.
RandomEdgeLists(n) == {pick(allPairs(n), keep, 1) : keep \in SUBSET (1..Len(allPairs(n)))}

\* Mutant: an empty draw is left without an edge.
mutForceEdge(edges) == edges

\* if (edges.length === 0) edges.push({u: 0, v: 1})
forceEdge(edges) == IF Len(edges) = 0 THEN <<Edge(0, 1)>> ELSE edges

\* Coordinates the random source yields for a node (Math.random() * 360 + 20).
Points == {<<20, 20>>, <<200, 40>>, <<370, 30>>, <<30, 200>>, <<190, 190>>, <<360, 210>>}

\* Squared distance: Math.hypot(dx, dy) < d is compared as dx^2 + dy^2 < d^2.
dist2(a, b) == (a.x - b.x) * (a.x - b.x) + (a.y - b.y) * (a.y - b.y)

\* The nodes array after the placement loop: a point is pushed unless it is
\* closer than minDist to a point pushed before.
Placements(n) ==
    {[i \in 0..(n - 1) |-> [id |-> i, x |-> f[i][1], y |-> f[i][2]]] :
        f \in {g \in [0..(n - 1) -> Points] :
                 \A i \in 0..(n - 1) : \A j \in 0..(n - 1) :
                     i < j => ~((g[i][1] - g[j][1]) * (g[i][1] - g[j][1])
                                + (g[i][2] - g[j][2]) * (g[i][2] - g[j][2])
                                < minDist * minDist)}}

\* nodes.map(n => ({id, dist})).sort((a, b) => a.dist - b.dist): ids by
\* distance to node i; the sort is stable, ties stay in id order.
sortByDist(nodes, n, i) ==
    LET before(a, b) == \/ dist2(nodes[a], nodes[i]) < dist2(nodes[b], nodes[i])
                        \/ dist2(nodes[a], nodes[i]) = dist2(nodes[b], nodes[i]) /\ a < b
        rank(a) == Cardinality({b \in 0..(n - 1) : before(b, a)})
    IN [p \in 1..n |-> CHOOSE a \in 0..(n - 1) : rank(a) = p - 1]

orient(P, Q, R) == (Q.x - P.x) * (R.y - P.y) - (Q.y - P.y) * (R.x - P.x)

\* a * b < 0 on doubles of this size: the factors have opposite non-zero signs.
\* (Written without the product, which exceeds the model checker's integers.)
negProduct(a, b) == (a < 0 /\ b > 0) \/ (a > 0 /\ b < 0)

intersect(P, Q, R, S) ==
    /\ negProduct(orient(P, Q, R), orient(P, Q, S))
    /\ negProduct(orient(R, S, P), orient(R, S, Q))

\* Mutant: no candidate edge is taken to cross an edge pushed before.
mutCrosses(nodes, edges, i, v) == FALSE

\* edges.some(e => intersect(nodes[e.u], nodes[e.v], nodes[i], nodes[v]))
crosses(nodes, edges, i, v) ==
    \E k \in 1..Len(edges) :
        intersect(nodes[edges[k].u], nodes[edges[k].v], nodes[i], nodes[v])

\* for i: for (j = 1; j <= 3 && j < dists.length; j++): push {u: i, v} unless
\* the pair is present or the segment crosses an edge pushed before.
RECURSIVE planarLoop(_, _, _, _, _)
planarLoop(nodes, n, i, j, edges) ==
    IF i >= n THEN edges
    ELSE IF ~(j <= 3 /\ j < n) THEN planarLoop(nodes, n, i + 1, 1, edges)
    ELSE LET v == sortByDist(nodes, n, i)[j + 1] IN
         IF hasPair(edges, i, v) THEN planarLoop(nodes, n, i, j + 1, edges)
         ELSE IF crosses(nodes, edges, i, v) THEN planarLoop(nodes, n, i, j + 1, edges)
         ELSE planarLoop(nodes, n, i, j + 1, Append(edges, Edge(i, v)))

\* if (edges.length < nodeCount - 1) for (i = 1; i < nodeCount; i++) push {u: i-1, v: i}
pathPatch(n, edges) ==
    IF Len(edges) < n - 1
    THEN edges \o [i \in 1..(n - 1) |-> Edge(i - 1, i)]
    ELSE edges

planarEdges(nodes, n) == pathPatch(n, planarLoop(nodes, n, 0, 1, <<>>))

Instance(nodes, edges, k) == [nodes |-> nodes, edges |-> edges, k |-> k]

nodeLen(g) == Cardinality(DOMAIN g.nodes)

\* return {nodes: [{id: 0}, {id: 1}], edges: [{u: 0, v: 1}], k: ...}
fallbackGraph(k) == Instance(idNodes(2), <<Edge(0, 1)>>, k)

\* The end of one pass of a generator's retry loop: return the instance when it
\* is accepted, go round again, or leave the loop and return the fallback.
Pass(accepted, instance, limit, fallback) ==
    IF accepted
    THEN /\ graph' = instance
         /\ pc' = "returned"
         /\ UNCHANGED attempt
    ELSE IF attempt + 1 < limit
    THEN /\ attempt' = attempt + 1
         /\ UNCHANGED <<graph, pc>>
    ELSE /\ graph' = fallback
         /\ pc' = "returned"
         /\ attempt' = limit

Return(instance) ==
    /\ graph' = instance
    /\ pc' = "returned"
    /\ UNCHANGED attempt

\* generateGraph of VertexCoverGame.jsx
VCGenerateGraph ==
    /\ game = "vc" /\ pc = "generateGraph"
    /\ \E n \in NodeCounts : \E drawn \in RandomEdgeLists(n) :
           LET edges == forceEdge(drawn)
               k == findMinVertexCover(n, edges)
           IN Pass(k # null, Instance(idNodes(n), edges, k), maxAttempts, fallbackGraph(1))
    /\ UNCHANGED <<game, out, correct, ui>>

\* generatePlanarGraph of VertexCoverGame.jsx
VCGeneratePlanarGraph ==
    /\ game = "vc" /\ pc = "generatePlanarGraph"
    /\ \E n \in PlanarNodeCounts : \E nodes \in Placements(n) :
           LET edges == planarEdges(nodes, n)
           IN Return(Instance(nodes, edges, findMinVertexCover(n, edges)))
    /\ UNCHANGED <<game, out, correct, ui>>

\* generateGraph of IndependentSetGame.jsx
ISGenerateGraph ==
    /\ game = "is" /\ pc = "generateGraph"
    /\ \E n \in NodeCounts : \E drawn \in RandomEdgeLists(n) :
           LET edges == forceEdge(drawn)
               sel == getMaxIndependentSetNodes(n, edges)
           IN Pass(Cardinality(sel) > 0, Instance(idNodes(n), edges, Cardinality(sel)),
                   maxAttempts, fallbackGraph(1))
    /\ UNCHANGED <<game, out, correct, ui>>

\* generatePlanarGraph of IndependentSetGame.jsx
ISGeneratePlanarGraph ==
    /\ game = "is" /\ pc = "generatePlanarGraph"
    /\ \E n \in PlanarNodeCounts : \E nodes \in Placements(n) :
           LET edges == planarEdges(nodes, n)
           IN Return(Instance(nodes, edges,
                              Cardinality(getMaxIndependentSetNodes(n, edges))))
    /\ UNCHANGED <<game, out, correct, ui>>

\* generateGraph of the clique game
CliqueGenerateGraph ==
    /\ game = "clique" /\ pc = "generateGraph"
    /\ \E n \in NodeCounts : \E drawn \in RandomEdgeLists(n) :
           LET edges == forceEdge(drawn)
               k == cliqueFindMinVertexCover(n, edges)
           IN Pass(k > 1, Instance(idNodes(n), edges, k), maxAttempts, fallbackGraph(2))
    /\ UNCHANGED <<game, out, correct, ui>>

\* generatePlanarGraph of the clique game
CliqueGeneratePlanarGraph ==
    /\ game = "clique" /\ pc = "generatePlanarGraph"
    /\ \E n \in PlanarNodeCounts : \E nodes \in Placements(n) :
           LET edges == planarEdges(nodes, n)
           IN Return(Instance(nodes, edges, cliqueFindMinVertexCover(n, edges)))
    /\ UNCHANGED <<game, out, correct, ui>>

\* generate3ColorableGraph of ThreeColorGame.jsx
generate3ColorableGraph ==
    /\ game = "color" /\ pc = "generate3ColorableGraph"
    /\ \E n \in NodeCounts : \E edges \in RandomEdgeLists(n) :
           LET coloring == find3Coloring(n, edges, 3)
           IN Pass(coloring # nullArr,
                   [nodes |-> idNodes(n), edges |-> edges, correctColoring |-> coloring],
                   maxAttempts20,
                   [nodes |-> idNodes(3), edges |-> <<Edge(0, 1), Edge(1, 2)>>,
                    correctColoring |-> [i \in 0..2 |-> i]])
    /\ UNCHANGED <<game, out, correct, ui>>

\* The component keeps the witness of the installed instance:
\* correctCover = useMemo(() => getMinVertexCoverNodes(graph.nodes.length, graph.edges)),
\* the independent set game's getMaxIndependentSetNodes(graph.nodes.length, graph.edges),
\* and gameData.correctColoring.
Mount ==
    /\ pc = "returned"
    /\ game \in {"vc", "is", "clique", "color"}
    /\ pc' = "mounted"
    /\ correct' = CASE game = "vc" -> getMinVertexCoverNodes(nodeLen(graph), graph.edges)
                    [] game = "is" -> getMaxIndependentSetNodes(nodeLen(graph), graph.edges)
                    [] game = "clique" ->
                           cliqueGetMinVertexCoverNodes(nodeLen(graph), graph.edges)
                    [] game = "color" -> graph.correctColoring
    /\ UNCHANGED <<game, graph, out, attempt, ui>>

InitGen ==
    /\ game \in {"vc", "is", "clique", "color"}
    /\ pc \in {"generateGraph", "generatePlanarGraph", "generate3ColorableGraph"}
    /\ (pc = "generate3ColorableGraph") <=> (game = "color")
    /\ graph = [nodes |-> <<>>, edges |-> <<>>]
    /\ out = [fn |-> "none"]
    /\ attempt = 0
    /\ correct = {}
    /\ NoComponent

NextGen ==
    \/ VCGenerateGraph
    \/ VCGeneratePlanarGraph
    \/ ISGenerateGraph
    \/ ISGeneratePlanarGraph
    \/ CliqueGenerateGraph
    \/ CliqueGeneratePlanarGraph
    \/ generate3ColorableGraph
    \/ Mount

SpecGen == InitGen /\ [][NextGen]_vars

----------------------------------------------------------------------------
\* Hamiltonian cycle game (HamCycleGame.jsx, first module).

\* const TIMER = 5
hamTIMER == 5

\* Highest score a model run plays up to.
MaxScore == 1

HamNodeCounts == 3..MaxNodes

\* nodes.map(n => n.id).sort(() => Math.random() - 0.5): some order of the ids.
Shuffles(n) == {c \in [1..n -> 0..(n - 1)] : \A i \in 1..n : \A j \in 1..n : c[i] = c[j] => i = j}

\* edges.push({u: cycle[i], v: cycle[(i + 1) % nodeCount]}) for i = 0..nodeCount-1
cycleEdges(n, cycle) == [i \in 1..n |-> Edge(cycle[i], cycle[(i % n) + 1])]

\* The extra-edge loop: pair (i, j) is pushed on a coin flip (its index is in
\* keep) unless the pair is already an edge.
RECURSIVE extraEdges(_, _, _, _)
extraEdges(ps, keep, k, edges) ==
    IF k > Len(ps) THEN edges
    ELSE IF k \in keep /\ ~hasPair(edges, ps[k].u, ps[k].v)
         THEN extraEdges(ps, keep, k + 1, Append(edges, ps[k]))
         ELSE extraEdges(ps, keep, k + 1, edges)

\* The indexes of the pairs the extra-edge loop can add: a coin flip on a pair
\* that is already an edge of the cycle changes nothing.
freePairs(n, cycle) ==
    {k \in 1..Len(allPairs(n)) :
        ~hasPair(cycleEdges(n, cycle), allPairs(n)[k].u, allPairs(n)[k].v)}

\* One pass of the retry loop of generateHamiltonianGraph.
hamPass(n, cycle, keep) ==
    LET edges == extraEdges(allPairs(n), keep, 1, cycleEdges(n, cycle))
        cycleFound == findHamiltonianCycle(n, edges)
    IN [accepted |-> cycleFound # nullArr,
        instance |-> [nodes |-> idNodes(n), edges |-> edges, cycle |-> cycleFound]]

HamPasses ==
    UNION {UNION {{hamPass(n, c, keep) : keep \in SUBSET freePairs(n, c)} : c \in Shuffles(n)} :
              n \in HamNodeCounts}

\* What generateHamiltonianGraph can return: the instance of an accepted pass,
\* or the fallback triangle after maxAttempts rejected passes.
generateHamiltonianGraph ==
    {a.instance : a \in {b \in HamPasses : b.accepted}}
    \cup (IF \E b \in HamPasses : ~b.accepted
          THEN {[nodes |-> idNodes(3), edges |-> <<Edge(0, 1), Edge(1, 2), Edge(2, 0)>>,
                 cycle |-> <<0, 1, 2>>]}
          ELSE {})

\* The graph state of the component.  Its handlers and effects read
\* graph.nodes.length and graph.cycle; graph.edges is read by renderSVG only
\* and is left out of the component state.
HamRounds == {[nodes |-> g.nodes, cycle |-> g.cycle] : g \in generateHamiltonianGraph}

\* cycle.slice(offset).concat(cycle.slice(0, offset))
rotate(cycle, offset) ==
    SubSeq(cycle, offset + 1, Len(cycle)) \o SubSeq(cycle, 1, offset)

\* [...rotated].reverse()
reverse(s) == [i \in 1..Len(s) |-> s[Len(s) + 1 - i]]

\* rotated.every((v, i) => v === selected[i]); an index past the end of
\* selected reads undefined, which equals no node id.
everyEqual(a, sel) == \A i \in 1..Len(a) : i <= Len(sel) /\ a[i] = sel[i]

\* Mutant: the reversed rotation is not compared.
mutHamMatch(cycle, sel) ==
    \E offset \in 0..(Len(cycle) - 1) : everyEqual(rotate(cycle, offset), sel)

\* The offset loop of the win detection effect.
hamMatch(cycle, sel) ==
    \E offset \in 0..(Len(cycle) - 1) :
        \/ everyEqual(rotate(cycle, offset), sel)
        \/ everyEqual(reverse(rotate(cycle, offset)), sel)

\* The win detection effect, run after a render that changed selected, graph,
\* gameOver or showCorrect: TRUE when it scores.
hamWins(g, sel, over, shown) ==
    /\ ~over
    /\ ~shown
    /\ Len(sel) = nodeLen(g)
    /\ hamMatch(g.cycle, sel)

\* Mutant: the high score becomes the score of the round that ran out.
mutMax(a, b) == b

\* Math.max(hs, score)
Max(a, b) == IF a >= b THEN a ELSE b

\* prev.filter(v => v !== id)
RECURSIVE without(_, _)
without(s, id) ==
    IF s = <<>> THEN <<>>
    ELSE IF Head(s) = id THEN without(Tail(s), id)
    ELSE <<Head(s)>> \o without(Tail(s), id)

\* handleNodeClick(id), followed by the win detection effect.  (The help
\* overlay is not opened in this game's runs: showHelp stays FALSE.)
HamNodeClick ==
    /\ game = "ham"
    /\ ~(gameOver \/ showHelp \/ showCorrect)
    /\ \E id \in 0..(nodeLen(graph) - 1) :
           LET sel == IF includes(selected, id) THEN without(selected, id)
                      ELSE IF Len(selected) < nodeLen(graph) THEN Append(selected, id)
                      ELSE selected
               win == sel # selected /\ hamWins(graph, sel, gameOver, showCorrect)
           IN /\ selected' = sel
              /\ win => score < MaxScore
              /\ score' = IF win THEN score + 1 ELSE score
              /\ showCorrect' = IF win THEN TRUE ELSE showCorrect
              /\ pending' = IF win THEN pending + 1 ELSE pending
    /\ UNCHANGED <<game, pc, graph, out, attempt, correct, highScore, timeLeft, gameOver,
                   showHelp, errorFlash, blockedEdgeIdx, hasInteracted>>

\* The countdown running out: the interval callback setTimeLeft(t => t - 1),
\* run while !gameOver && !showHelp && !showCorrect, has brought timeLeft to 0
\* and the time-up effect has fired.  The ticks before the last one change
\* timeLeft only and are taken together with it.
HamTimeUp ==
    /\ game = "ham"
    /\ ~gameOver /\ ~showHelp /\ ~showCorrect
    /\ timeLeft > 0
    /\ timeLeft' = 0
    /\ gameOver' = TRUE
    /\ highScore' = Max(highScore, score)
    /\ UNCHANGED <<game, pc, graph, out, attempt, correct, selected, score, showCorrect,
                   showHelp, errorFlash, blockedEdgeIdx, hasInteracted, pending>>

\* resetRound, the Reset button (rendered in every state of the game).
\* The effects that follow find timeLeft = TIMER and selected empty.
HamResetRound ==
    /\ game = "ham"
    /\ selected' = <<>>
    /\ timeLeft' = hamTIMER
    /\ showCorrect' = FALSE
    /\ UNCHANGED <<game, pc, graph, out, attempt, correct, score, highScore, gameOver,
                   showHelp, errorFlash, blockedEdgeIdx, hasInteracted, pending>>

\* startNext, run by the timeout the win detection scheduled.  The state
\* updates of one callback are applied together; the effects then see the new
\* graph with the empty selection.
HamStartNext ==
    /\ game = "ham"
    /\ pending > 0
    /\ pending' = pending - 1
    /\ \E next \in HamRounds :
           /\ graph' = next
           /\ LET win == hamWins(next, <<>>, FALSE, FALSE)
              IN /\ win => score < MaxScore
                 /\ score' = IF win THEN score + 1 ELSE score
                 /\ showCorrect' = win
    /\ selected' = <<>>
    /\ gameOver' = FALSE
    /\ timeLeft' = hamTIMER
    /\ UNCHANGED <<game, pc, out, attempt, correct, highScore, showHelp, errorFlash,
                   blockedEdgeIdx, hasInteracted>>

\* The component after its first render: init = newRoundHC().
InitHam ==
    /\ game = "ham"
    /\ pc = "play"
    /\ graph \in HamRounds
    /\ out = [fn |-> "none"]
    /\ attempt = 0
    /\ correct = {}
    /\ selected = <<>>
    /\ score = 0
    /\ highScore = 0
    /\ timeLeft = hamTIMER
    /\ gameOver = FALSE
    /\ showCorrect = FALSE
    /\ showHelp = FALSE
    /\ errorFlash = FALSE
    /\ blockedEdgeIdx = null
    /\ hasInteracted = FALSE
    /\ pending = 0

NextHam ==
    \/ HamNodeClick
    \/ HamTimeUp
    \/ HamResetRound
    \/ HamStartNext

SpecHam == InitHam /\ [][NextHam]_vars

----------------------------------------------------------------------------
\* Travelling salesman game (TravelingSalesmanGame.jsx).

\* const TIMER = 45
tspTIMER == 45

\* const minDist = 120 (planarLayout)
tspMinDist == 120

\* Largest node count generateTspGraph is run on (the source draws 5..7, and
\* 3..5 in its earlier copy).
MaxTspNodes == 4

TspNodeCounts == 3..MaxTspNodes

\* Coordinates the random source yields for a node:
\* Math.random() * (400 - 2 * 15) + 15, for x and for y.
TspPoints == {<<15, 20>>, <<200, 35>>, <<380, 60>>, <<90, 250>>, <<300, 330>>}

\* planarLayout: the do-while draws again while the point is closer than
\* minDist to a placed one.
planarLayout(n) ==
    {[i \in 0..(n - 1) |-> [id |-> i, x |-> f[i][1], y |-> f[i][2]]] :
        f \in {g \in [0..(n - 1) -> TspPoints] :
                 \A i \in 0..(n - 1) : \A j \in 0..(n - 1) :
                     i < j => ~((g[i][1] - g[j][1]) * (g[i][1] - g[j][1])
                                + (g[i][2] - g[j][2]) * (g[i][2] - g[j][2])
                                < tspMinDist * tspMinDist)}}

\* The r with r - 1/2 <= sqrt(s) < r + 1/2, found by bisection on lo..hi.
RECURSIVE roundSqrt(_, _, _)
roundSqrt(s, lo, hi) ==
    IF lo >= hi THEN lo
    ELSE LET mid == (lo + hi) \div 2 IN
         IF s <= mid * (mid + 1) THEN roundSqrt(s, lo, mid)
         ELSE roundSqrt(s, mid + 1, hi)

\* Math.round(Math.hypot(a.x - b.x, a.y - b.y))
dist(a, b) == roundSqrt(dist2(a, b), 0, 1024)

\* path.reduce((sum, id, i) => sum + dist(nodes[id], nodes[path[(i + 1) % len]]), 0)
RECURSIVE reduceLen(_, _, _, _)
reduceLen(nodes, path, len, i) ==
    IF i >= Len(path) THEN 0
    ELSE dist(nodes[path[i + 1]], nodes[path[((i + 1) % len) + 1]])
         + reduceLen(nodes, path, len, i + 1)

\* remaining.filter((_, j) => j !== i)
removeAt(s, i) == SubSeq(s, 1, i - 1) \o SubSeq(s, i + 1, Len(s))

\* permute(path, remaining) of getOptimalTour; best holds bestLen and bestTour,
\* bestLen = null standing for Infinity.
RECURSIVE permute(_, _, _, _), permuteFor(_, _, _, _, _)

\* Mutant: the loop over remaining stops before its last entry.
mutPermuteFor(nodes, path, remaining, i, best) ==
    IF i > Len(remaining) \/ (i = Len(remaining) /\ i > 1) THEN best
    ELSE permuteFor(nodes, path, remaining, i + 1,
                    permute(nodes, Append(path, remaining[i]), removeAt(remaining, i), best))

permute(nodes, path, remaining, best) ==
    IF Len(remaining) = 0
    THEN LET len == reduceLen(nodes, path, Cardinality(DOMAIN nodes), 0) IN
         IF best.bestLen = null \/ len < best.bestLen
         THEN [bestLen |-> len, bestTour |-> Append(path, path[1])]
         ELSE best
    ELSE permuteFor(nodes, path, remaining, 1, best)

\* (The test on found has the same outcome either way: it makes the model
\* checker finish one subtree before it enters the next, as the code does.)
permuteFor(nodes, path, remaining, i, best) ==
    IF i > Len(remaining) THEN best
    ELSE LET found == permute(nodes, Append(path, remaining[i]), removeAt(remaining, i), best)
         IN IF found.bestLen = null
            THEN permuteFor(nodes, path, remaining, i + 1, found)
            ELSE permuteFor(nodes, path, remaining, i + 1, found)

\* permute([idxs[0]], idxs.slice(1)); return {bestTour, bestLen}
getOptimalTour(nodes) ==
    LET n == Cardinality(DOMAIN nodes)
    IN permute(nodes, <<0>>, [i \in 1..(n - 1) |-> i], [bestLen |-> null, bestTour |-> <<>>])

\* generateTspGraph for the layout placed.  The weighted edges it returns are
\* read by renderSVG only and are left out of the instance.
generateTspGraph(placed) ==
    LET t == getOptimalTour(placed)
    IN [nodes |-> placed, optimal |-> t.bestTour, optimalLen |-> t.bestLen]

\* Orders in which the coordinates come out of the random source in the rounds
\* the game is played on; a round of n nodes takes the first n of an order.
TspDraws ==
    {<<<<15, 20>>, <<200, 35>>, <<380, 60>>, <<90, 250>>, <<300, 330>>>>,
     <<<<380, 60>>, <<15, 20>>, <<300, 330>>, <<200, 35>>, <<90, 250>>>>,
     <<<<90, 250>>, <<300, 330>>, <<15, 20>>, <<380, 60>>, <<200, 35>>>>}

TspRounds ==
    {generateTspGraph([i \in 0..(n - 1) |-> [id |-> i, x |-> d[i + 1][1], y |-> d[i + 1][2]]]) :
        n \in TspNodeCounts, d \in TspDraws}

\* Most startNext timeouts that are waiting to fire at one time.
MaxPending == 1

\* getOptimalTour called on a layout.
InitTspGen ==
    /\ game = "tspgen"
    /\ pc = "call"
    /\ \E n \in TspNodeCounts : \E placed \in planarLayout(n) : graph = [nodes |-> placed]
    /\ out = [fn |-> "none"]
    /\ attempt = 0
    /\ correct = {}
    /\ NoComponent

CallGetOptimalTour ==
    /\ game = "tspgen"
    /\ pc = "call"
    /\ pc' = "returned"
    /\ out' = [fn |-> "getOptimalTour", value |-> getOptimalTour(graph.nodes)]
    /\ UNCHANGED <<game, graph, attempt, correct, ui>>

SpecTspGen == InitTspGen /\ [][CallGetOptimalTour]_vars

\* Mutant: the win check fires on a selection of n entries.
mutTspWins(g, sel) ==
    /\ Len(sel) = nodeLen(g)
    /\ reduceLen(g.nodes, sel, Len(sel), 0) = g.optimalLen

\* The win check effect, run after a render that changed selected or graph.
tspWins(g, sel) ==
    /\ Len(sel) = nodeLen(g) + 1
    /\ reduceLen(g.nodes, sel, Len(sel), 0) = g.optimalLen

\* graph.nodes[id] is undefined for an id the graph does not have, and dist
\* throws on it.
tspThrows(g, sel) ==
    /\ Len(sel) = nodeLen(g) + 1
    /\ \E i \in 1..Len(sel) : sel[i] \notin DOMAIN g.nodes

\* handleNodeClick(id), followed by the win check effect.
TspNodeClick ==
    /\ game = "tsp" /\ pc = "play"
    /\ ~(gameOver \/ showHelp)
    /\ \E id \in 0..(nodeLen(graph) - 1) :
           LET sel == IF Len(selected) = 0 THEN <<id>>
                      ELSE IF Len(selected) = nodeLen(graph) /\ id = selected[1]
                      THEN Append(selected, id)
                      ELSE IF includes(selected, id) THEN selected
                      ELSE Append(selected, id)
               win == sel # selected /\ tspWins(graph, sel)
           IN /\ selected' = sel
              /\ win => (score < MaxScore /\ pending < MaxPending)
              /\ score' = IF win THEN score + 1 ELSE score
              /\ pending' = IF win THEN pending + 1 ELSE pending
    /\ UNCHANGED <<game, pc, graph, out, attempt, correct, highScore, timeLeft, gameOver,
                   showCorrect, showHelp, errorFlash, blockedEdgeIdx, hasInteracted>>

\* The countdown running out: the interval callback setTimeLeft(t => t - 1),
\* run while !gameOver && !showHelp, has brought timeLeft to 0 and the time-up
\* effect has fired.  The ticks before the last one change timeLeft only and
\* are taken together with it.
TspTimeUp ==
    /\ game = "tsp" /\ pc = "play"
    /\ ~gameOver /\ ~showHelp
    /\ timeLeft > 0
    /\ timeLeft' = 0
    /\ gameOver' = TRUE
    /\ highScore' = Max(highScore, score)
    /\ UNCHANGED <<game, pc, graph, out, attempt, correct, selected, score, showCorrect,
                   showHelp, errorFlash, blockedEdgeIdx, hasInteracted, pending>>

\* The commit that installs the instance next over the score s: the win check
\* effect and the reset effect both run on the selection of the render that
\* saw the new graph, then setSelected([]) is applied.
tspInstall(next, s) ==
    /\ graph' = next
    /\ gameOver' = FALSE
    /\ timeLeft' = tspTIMER
    /\ selected' = <<>>
    /\ IF tspThrows(next, selected)
       THEN pc' = "error" /\ score' = s /\ UNCHANGED pending
       ELSE LET win == tspWins(next, selected)
            IN /\ win => (s < MaxScore /\ pending < MaxPending)
               /\ score' = IF win THEN s + 1 ELSE s
               /\ pending' = IF win THEN pending + 1 ELSE pending
               /\ UNCHANGED pc

\* startNext, run by the timeout the win check scheduled.
TspStartNext ==
    /\ game = "tsp" /\ pc = "play"
    /\ pending > 0
    /\ \E next \in TspRounds :
           /\ graph' = next
           /\ gameOver' = FALSE
           /\ timeLeft' = tspTIMER
           /\ selected' = <<>>
           /\ IF tspThrows(next, selected)
              THEN pc' = "error" /\ score' = score /\ pending' = pending - 1
              ELSE LET win == tspWins(next, selected)
                   IN /\ win => score < MaxScore
                      /\ score' = IF win THEN score + 1 ELSE score
                      /\ pending' = IF win THEN pending ELSE pending - 1
                      /\ UNCHANGED pc
    /\ UNCHANGED <<game, out, attempt, correct, highScore, showCorrect, showHelp, errorFlash,
                   blockedEdgeIdx, hasInteracted>>

\* handleRetry (the Retry button of the game-over view): setScore(0); startNext().
TspRetry ==
    /\ game = "tsp" /\ pc = "play"
    /\ gameOver
    /\ \E next \in TspRounds : tspInstall(next, 0)
    /\ UNCHANGED <<game, out, attempt, correct, highScore, showCorrect, showHelp, errorFlash,
                   blockedEdgeIdx, hasInteracted>>

\* The component after its first render: init = generateTspGraph(...).
InitTsp ==
    /\ game = "tsp"
    /\ pc = "play"
    /\ graph \in TspRounds
    /\ out = [fn |-> "none"]
    /\ attempt = 0
    /\ correct = {}
    /\ selected = <<>>
    /\ score = 0
    /\ highScore = 0
    /\ timeLeft = tspTIMER
    /\ gameOver = FALSE
    /\ showCorrect = FALSE
    /\ showHelp = FALSE
    /\ errorFlash = FALSE
    /\ blockedEdgeIdx = null
    /\ hasInteracted = FALSE
    /\ pending = 0

NextTsp ==
    \/ TspNodeClick
    \/ TspTimeUp
    \/ TspStartNext
    \/ TspRetry

SpecTsp == InitTsp /\ [][NextTsp]_vars

----------------------------------------------------------------------------
\* 3-SAT formula generator (ThreeSatGame.jsx).

\* Largest numVars and numClauses generateFormula is called with (the defaults
\* draw numVars from 3..5 and numClauses from numVars..2*numVars-1).
MaxVars == 3

MaxClauses == 2

\* Values Math.floor(Math.random() * numVars) yields in turn inside the
\* while (vars.length < 3) loop: three consecutive variables starting anywhere,
\* without or with a value that comes a second time.
VarDraws(numVars) ==
    UNION {{<<v, (v + 1) % numVars, (v + 2) % numVars>>,
            <<v, (v + 1) % numVars, v, (v + 1) % numVars, (v + 2) % numVars>>} :
               v \in 0..(numVars - 1)}

\* while (vars.length < 3) { const v = ...; if (!vars.includes(v)) vars.push(v); }
RECURSIVE drawVars(_, _, _)
drawVars(draws, i, vs) ==
    IF Len(vs) >= 3 \/ i > Len(draws) THEN vs
    ELSE drawVars(draws, i + 1, IF includes(vs, draws[i]) THEN vs ELSE Append(vs, draws[i]))

\* lit.some(({ var: v, neg }) => assignment[v] !== neg)
someMatches(lit, assignment) ==
    \E i \in 1..Len(lit) : assignment[lit[i].var] # lit[i].neg

\* Mutant: the literal picked is given the polarity the assignment falsifies.
mutForceMatch(lit, idx, assignment) ==
    IF someMatches(lit, assignment) THEN lit
    ELSE [lit EXCEPT ![idx + 1].neg = assignment[lit[idx + 1].var]]

\* if (!lit.some(...)) { lit[idx].neg = !assignment[lit[idx].var]; }
forceMatch(lit, idx, assignment) ==
    IF someMatches(lit, assignment) THEN lit
    ELSE [lit EXCEPT ![idx + 1].neg = ~assignment[lit[idx + 1].var]]

\* The clauses one pass of the clause loop can push: vars from the draws,
\* lit = vars.map(v => ({ var: v, neg: Math.random() < 0.5 })), then the fix-up
\* with idx = Math.floor(Math.random() * 3).
drawClause(numVars, assignment) ==
    UNION {LET vs == drawVars(draws, 1, <<>>) IN
           UNION {LET lit == [i \in 1..3 |-> [var |-> vs[i], neg |-> negs[i]]] IN
                  {forceMatch(lit, idx, assignment) : idx \in 0..2} :
                      negs \in [1..3 -> BOOLEAN]} :
               draws \in VarDraws(numVars)}

\* clauses.every(clause => clause.some(({ neg }) => neg))
allFalseSatisfies(clauses) ==
    \A c \in 1..Len(clauses) : \E i \in 1..Len(clauses[c]) : clauses[c][i].neg

\* Top of the do body: assignment = Array.from({ length: numVars }, ...); clauses = [].
SatDrawAssignment ==
    /\ game = "sat"
    /\ pc = "draw"
    /\ \E assignment \in [0..(graph.numVars - 1) -> BOOLEAN] :
           out' = [fn |-> "generateFormula", assignment |-> assignment, clauses |-> <<>>]
    /\ pc' = "build"
    /\ UNCHANGED <<game, graph, attempt, correct, ui>>

\* One pass of while (clauses.length < numClauses && clauses.length < maxAttempts).
\* After the pass that ends the loop the do-while condition is evaluated: the
\* body is entered again, where assignment and clauses are overwritten, or the
\* function returns.
SatPushClause ==
    /\ game = "sat"
    /\ pc = "build"
    /\ Len(out.clauses) < graph.numClauses
    /\ Len(out.clauses) < graph.numClauses * 2
    /\ \E lit \in drawClause(graph.numVars, out.assignment) :
           LET clauses == Append(out.clauses, lit)
           IN IF Len(clauses) < graph.numClauses /\ Len(clauses) < graph.numClauses * 2
              THEN /\ out' = [out EXCEPT !.clauses = clauses]
                   /\ UNCHANGED pc
              ELSE IF Len(clauses) = graph.numClauses /\ allFalseSatisfies(clauses)
              THEN /\ out' = [fn |-> "none"]
                   /\ pc' = "draw"
              ELSE /\ out' = [fn |-> "generateFormula",
                              value |-> [clauses |-> clauses,
                                         assignment |-> out.assignment,
                                         numVars |-> graph.numVars]]
                   /\ pc' = "returned"
    /\ UNCHANGED <<game, graph, attempt, correct, ui>>

\* generateFormula(numVars, numClauses) entered.
InitSat ==
    /\ game = "sat"
    /\ pc = "draw"
    /\ graph \in [numVars : 3..MaxVars, numClauses : 1..MaxClauses]
    /\ out = [fn |-> "none"]
    /\ attempt = 0
    /\ correct = {}
    /\ NoComponent

NextSat ==
    \/ SatDrawAssignment
    \/ SatPushClause

SpecSat == InitSat /\ [][NextSat]_vars

----------------------------------------------------------------------------
\* Win checks of the subset games and of the 3-SAT game, on the selection a
\* component holds (a Set of node ids, an array of booleans).

\* Mutant: the win check compares the size only.
mutVcWins(g, sel) == Cardinality(sel) = g.k

\* edges.every(({ u, v }) => selected.has(u) || selected.has(v)) && selected.size === k
vcWins(g, sel) ==
    /\ \A e \in 1..Len(g.edges) : g.edges[e].u \in sel \/ g.edges[e].v \in sel
    /\ Cardinality(sel) = g.k

\* selected.size === k && edges.every(({ u, v }) => !(selected.has(u) && selected.has(v)))
isWins(g, sel) ==
    /\ Cardinality(sel) = g.k
    /\ \A e \in 1..Len(g.edges) : ~(g.edges[e].u \in sel /\ g.edges[e].v \in sel)

\* formula.clauses.every(clause => clause.some(({ var: v, neg }) => selected[v] === !neg));
\* selected[v] of an index the array does not have is undefined, equal to neither.
sat(clauses, sel) ==
    \A c \in 1..Len(clauses) : \E i \in 1..Len(clauses[c]) :
        /\ clauses[c][i].var \in DOMAIN sel
        /\ sel[clauses[c][i].var] = ~clauses[c][i].neg

\* useState(new Set()); useState(Array(init.numVars).fill(false))
emptySelection == {}

allFalse(numVars) == [v \in 0..(numVars - 1) |-> FALSE]

\* The generators whose instance starts a round with the default selection.
InitFresh ==
    \/ InitGen /\ game \in {"vc", "is"}
    \/ InitSat

NextFresh ==
    \/ VCGenerateGraph
    \/ VCGeneratePlanarGraph
    \/ ISGenerateGraph
    \/ ISGeneratePlanarGraph
    \/ Mount
    \/ SatDrawAssignment
    \/ SatPushClause

SpecFresh == InitFresh /\ [][NextFresh]_vars

----------------------------------------------------------------------------
\* Subset sum game (SubsetSumGame.jsx, the module of lines 170-365).  out.fn
\* names the handler or callback that ran last.

\* const TIMER = 30
ssTIMER == 30

\* Sizes generateProblem draws in the runs (the source draws 4..7).
ItemCounts == 2..3

\* Most increments of the score followed within a game of the instance games.
MaxWins == 2

\* Values Math.floor(Math.random() * (maxValue - minValue + 1)) + minValue
\* yields in turn, minValue = 1 and maxValue = 20; an instance of size n takes
\* the first n of a draw.
SsDraws == {<<4, 13, 20, 7>>, <<4, 13, 17, 20>>, <<4, 20, 13, 17>>}

\* values = Array.from({ length: size }, () => ...)
ssValues(size, draw) == [i \in 0..(size - 1) |-> draw[i + 1]]

\* mask.filter(Boolean).length
count(mask) == Cardinality({i \in DOMAIN mask : mask[i]})

\* The mask the loop while (count === 0) is left with.
maskLoop(size) == {mask \in [0..(size - 1) -> BOOLEAN] : count(mask) # 0}

\* values.reduce((acc, v, i) => acc + (selected[i] ? v : 0), 0); an index
\* the selection does not have reads undefined.
RECURSIVE reduceSum(_, _, _)
reduceSum(values, sel, i) ==
    IF i \notin DOMAIN values THEN 0
    ELSE (IF i \in DOMAIN sel /\ sel[i] THEN values[i] ELSE 0) + reduceSum(values, sel, i + 1)

\* Mutant: the target is the sum of all values.
mutGenerateProblem(values, mask) ==
    [values |-> values,
     target |-> reduceSum(values, [i \in DOMAIN values |-> TRUE], 0),
     mask |-> mask]

\* generateProblem from the values and the mask drawn: target and return.
generateProblem(values, mask) ==
    [values |-> values, target |-> reduceSum(values, mask, 0), mask |-> mask]

SsRounds ==
    UNION {{generateProblem(ssValues(size, draw), mask) :
               draw \in SsDraws, mask \in maskLoop(size)} : size \in ItemCounts}

\* const currentSum = values.reduce(...), computed by every render.
currentSum(problem, sel) == reduceSum(problem.values, sel, 0)

\* Array(values.length).fill(false)
fillFalse(values) == [i \in DOMAIN values |-> FALSE]

\* Mutant: the win check accepts a sum that reaches the target or passes it.
mutSsWins(problem, sel, over) ==
    /\ ~over
    /\ currentSum(problem, sel) >= problem.target

\* The win check effect, run after a render in which currentSum, gameOver or
\* target changed: TRUE when it scores.
ssWins(problem, sel, over) ==
    /\ ~over
    /\ currentSum(problem, sel) = problem.target

\* handleToggle(i), followed by the win check effect.
SsToggle ==
    /\ game = "subsetsum" /\ pc = "play"
    /\ ~(gameOver \/ showHelp)
    /\ \E i \in DOMAIN graph.values :
           LET next == [selected EXCEPT ![i] = ~selected[i]]
               win == /\ currentSum(graph, next) # currentSum(graph, selected)
                      /\ ssWins(graph, next, gameOver)
           IN /\ selected' = next
              /\ win => (score < MaxWins /\ pending < MaxPending)
              /\ score' = IF win THEN score + 1 ELSE score
              /\ pending' = IF win THEN pending + 1 ELSE pending
    /\ out' = [fn |-> "handleToggle"]
    /\ UNCHANGED <<game, pc, graph, attempt, correct, highScore, timeLeft, gameOver,
                   showCorrect, showHelp, errorFlash, blockedEdgeIdx, hasInteracted>>

\* The countdown running out: the interval callback setTimeLeft(t => t - 1),
\* run while !gameOver && !showHelp, has brought timeLeft to 0 and the timeout
\* effect has fired.  The ticks before the last one change timeLeft only and
\* are taken together with it.
SsTimeUp ==
    /\ game = "subsetsum" /\ pc = "play"
    /\ ~gameOver /\ ~showHelp
    /\ timeLeft > 0
    /\ timeLeft' = 0
    /\ gameOver' = TRUE
    /\ highScore' = Max(highScore, score)
    /\ out' = [fn |-> "timeUp"]
    /\ UNCHANGED <<game, pc, graph, attempt, correct, selected, score, showCorrect, showHelp,
                   errorFlash, blockedEdgeIdx, hasInteracted, pending>>

\* The timeout callback setProblem(generateProblem()).  The render that
\* follows holds the new problem and the selection of the old one: the win
\* check effect runs on them when currentSum or target changed, and the reset
\* effect sets the selection, the time and gameOver for the render after it,
\* whose currentSum is 0.
SsStartNext ==
    /\ game = "subsetsum" /\ pc = "play"
    /\ pending > 0
    /\ \E next \in SsRounds :
           LET win == /\ \/ currentSum(next, selected) # currentSum(graph, selected)
                         \/ next.target # graph.target
                      /\ ssWins(next, selected, gameOver)
           IN /\ graph' = next
              /\ selected' = fillFalse(next.values)
              /\ timeLeft' = ssTIMER
              /\ gameOver' = FALSE
              /\ win => score < MaxWins
              /\ score' = IF win THEN score + 1 ELSE score
              /\ pending' = IF win THEN pending ELSE pending - 1
    /\ out' = [fn |-> "setProblem"]
    /\ UNCHANGED <<game, pc, attempt, correct, highScore, showCorrect, showHelp, errorFlash,
                   blockedEdgeIdx, hasInteracted>>

\* handleRetry (the Retry button of the game-over view): the score, an all-false
\* selection, the time, a new problem and gameOver are set together; the
\* effects of the render that follows find currentSum = 0.
SsRetry ==
    /\ game = "subsetsum" /\ pc = "play"
    /\ gameOver
    /\ \E next \in SsRounds :
           /\ graph' = next
           /\ selected' = fillFalse(next.values)
    /\ score' = 0
    /\ timeLeft' = ssTIMER
    /\ gameOver' = FALSE
    /\ out' = [fn |-> "handleRetry"]
    /\ UNCHANGED <<game, pc, attempt, correct, highScore, showCorrect, showHelp, errorFlash,
                   blockedEdgeIdx, hasInteracted, pending>>

\* The component after its first render: initProblem = generateProblem().
InitSs ==
    /\ game = "subsetsum"
    /\ pc = "play"
    /\ graph \in SsRounds
    /\ out = [fn |-> "none"]
    /\ attempt = 0
    /\ correct = {}
    /\ selected = fillFalse(graph.values)
    /\ score = 0
    /\ highScore = 0
    /\ timeLeft = ssTIMER
    /\ gameOver = FALSE
    /\ showCorrect = FALSE
    /\ showHelp = FALSE
    /\ errorFlash = FALSE
    /\ blockedEdgeIdx = null
    /\ hasInteracted = FALSE
    /\ pending = 0

NextSs ==
    \/ SsToggle
    \/ SsTimeUp
    \/ SsStartNext
    \/ SsRetry

SpecSs == InitSs /\ [][NextSs]_vars

----------------------------------------------------------------------------
\* Partition game (PartitionGame.jsx).

\* const TIMER = 30
partTIMER == 30

\* generatePartitionProblem(minItems, maxItems, minValue, maxValue): the
\* source's defaults are 5, 8, 1 and 20.
PartMinItems == 2
PartMaxItems == 4
minValue == 1
PartMaxValue == 3

PartSizes == PartMinItems..PartMaxItems
PartValues == minValue..PartMaxValue

\* mask.every(m => !m) || mask.every(m => m)
trivialMask(mask) ==
    \/ \A i \in DOMAIN mask : ~mask[i]
    \/ \A i \in DOMAIN mask : mask[i]

\* maskIndices and compIndices: the indices in increasing order.
RECURSIVE indicesFrom(_, _, _)
indicesFrom(mask, want, i) ==
    IF i \notin DOMAIN mask THEN <<>>
    ELSE (IF mask[i] = want THEN <<i>> ELSE <<>>) \o indicesFrom(mask, want, i + 1)

maskIndices(mask) == indicesFrom(mask, TRUE, 0)
compIndices(mask) == indicesFrom(mask, FALSE, 0)

\* xs.reduce((a, b) => a + b, 0)
RECURSIVE sumSeq(_)
sumSeq(xs) == IF xs = <<>> THEN 0 ELSE Head(xs) + sumSeq(Tail(xs))

\* Mutant: the derived last value is taken whatever it is.
mutOutOfRange(v) == FALSE

\* last < minValue || last > maxValue (and the same test of sumX)
outOfRange(v) == v < minValue \/ v > PartMaxValue

\* One pass of the while (true) loop: xs for the mask side, c - 1 values for
\* the other side, the last one derived.  draw[i] is the value
\* Math.floor(Math.random() * (maxValue - minValue + 1)) + minValue yields for
\* index i; nothing is drawn for the last index of the other side.  The result
\* is the values array, or nullArr when the pass ends in continue.
derive(mask, draw) ==
    LET mi == maskIndices(mask)
        ci == compIndices(mask)
        c == Len(ci)
        xs == [j \in 1..Len(mi) |-> draw[mi[j]]]
        sumX == sumSeq(xs)
        head == [j \in 1..(c - 1) |-> draw[ci[j]]]
        last == IF c = 1 THEN sumX ELSE sumX - sumSeq(head)
        ys == head \o <<last>>
    IN IF outOfRange(last) THEN nullArr
       ELSE [i \in DOMAIN mask |->
                IF mask[i] THEN xs[CHOOSE j \in 1..Len(mi) : mi[j] = i]
                ELSE ys[CHOOSE j \in 1..c : ci[j] = i]]

\* The do ... while loop drawing the mask: a trivial mask is drawn again.
PartDrawMask ==
    /\ game = "partition" /\ pc = "mask"
    /\ \E mask \in [0..(graph.size - 1) -> BOOLEAN] :
           IF trivialMask(mask)
           THEN UNCHANGED <<pc, graph>>
           ELSE /\ pc' = "values"
                /\ graph' = [size |-> graph.size, mask |-> mask]
    /\ UNCHANGED <<game, out, attempt, correct, ui>>

\* One pass of the while (true) loop and, when it breaks, the return.
PartDrawValues ==
    /\ game = "partition" /\ pc = "values"
    /\ \E draw \in [0..(graph.size - 1) -> PartValues] :
           LET values == derive(graph.mask, draw)
           IN IF values = nullArr
              THEN UNCHANGED <<pc, out>>
              ELSE /\ pc' = "returned"
                   /\ out' = [fn |-> "generatePartitionProblem",
                              value |-> [values |-> values, mask |-> graph.mask]]
    /\ UNCHANGED <<game, graph, attempt, correct, ui>>

\* A call of generatePartitionProblem after size is drawn.
InitPartGen ==
    /\ game = "partition"
    /\ pc = "mask"
    /\ graph \in [size : PartSizes]
    /\ out = [fn |-> "none"]
    /\ attempt = 0
    /\ correct = {}
    /\ selected = {}
    /\ score = 0
    /\ highScore = 0
    /\ timeLeft = partTIMER
    /\ gameOver = FALSE
    /\ showCorrect = FALSE
    /\ showHelp = FALSE
    /\ errorFlash = FALSE
    /\ blockedEdgeIdx = null
    /\ hasInteracted = FALSE
    /\ pending = 0

NextPartGen ==
    \/ PartDrawMask
    \/ PartDrawValues

SpecPartGen == InitPartGen /\ [][NextPartGen]_vars

----------------------------------------------------------------------------
\* Vertex cover game (VertexCoverGame.jsx).  out.fn names the handler or
\* callback that ran last.

\* const TIMER = 30
vcTIMER == 30

\* Coordinates generatePlanarGraph places the nodes of a round at.
VcPlacements ==
    {[i \in 0..2 |-> [id |-> i, x |-> f[i + 1][1], y |-> f[i + 1][2]]] :
        f \in {<<<<20, 20>>, <<200, 40>>, <<30, 200>>>>,
               <<<<370, 30>>, <<190, 190>>, <<360, 210>>>>}}

\* newRound(): the graph generatePlanarGraph() or generateGraph() returns, of
\* two or three nodes here (the loop rejects a grid layout of more than 8).
VcRounds ==
    {LET edges == forceEdge(drawn)
     IN Instance(idNodes(n), edges, findMinVertexCover(n, edges)) :
        <<n, drawn>> \in UNION {{<<m, d>> : d \in RandomEdgeLists(m)} : m \in 2..3}}
    \cup {LET edges == planarEdges(nodes, 3)
          IN Instance(nodes, edges, findMinVertexCover(3, edges)) : nodes \in VcPlacements}

\* The win check effect run once on a render: 1 when it scores.
vcCheck(g, sel) == IF vcWins(g, sel) THEN 1 ELSE 0

\* Mutant: a node is added whatever the size of the selection.
mutClickUpdater(prev, id, k) == IF id \in prev THEN prev \ {id} ELSE prev \cup {id}

\* The updater handleNodeClick passes to setSelected: c.delete(id) when the
\* node is selected, c.add(id) when c.size < graph.k, prev otherwise.
clickUpdater(prev, id, k) ==
    IF id \in prev THEN prev \ {id}
    ELSE IF Cardinality(prev) < k THEN prev \cup {id}
    ELSE prev

\* handleNodeClick(id), followed by the win check effect when the selection
\* changed.  A click on an unselected node at the limit returns prev (no
\* change, the effect does not run) and sets the error flash; a click while
\* gameOver or showHelp is true changes nothing.
VcNodeClick ==
    /\ game = "vc" /\ pc = "play"
    /\ \E id \in DOMAIN graph.nodes :
           LET ignored == clickIgnored(gameOver, showHelp)
               next == IF ignored THEN selected ELSE clickUpdater(selected, id, graph.k)
               flash == /\ ~ignored
                        /\ id \notin selected
                        /\ ~(Cardinality(selected) < graph.k)
               wins == IF next # selected THEN vcCheck(graph, next) ELSE 0
           IN /\ selected' = next
              /\ errorFlash' = IF flash THEN TRUE ELSE errorFlash
              /\ wins > 0 => (score < MaxWins /\ pending < MaxPending)
              /\ score' = score + wins
              /\ pending' = pending + wins
    /\ out' = [fn |-> "handleNodeClick"]
    /\ UNCHANGED <<game, pc, graph, attempt, correct, highScore, timeLeft, gameOver,
                   showCorrect, showHelp, blockedEdgeIdx, hasInteracted>>

\* setTimeout(() => setErrorFlash(false), 500): a flash timer fires.
VcFlashOff ==
    /\ game = "vc" /\ pc = "play"
    /\ errorFlash
    /\ errorFlash' = FALSE
    /\ out' = [fn |-> "flashOff"]
    /\ UNCHANGED <<game, pc, graph, attempt, correct, selected, score, highScore,
                   timeLeft, gameOver, showCorrect, showHelp, hasInteracted,
                   blockedEdgeIdx, pending>>

\* The countdown running out: the interval callback has brought timeLeft to 0
\* and the time up effect has fired.
VcTimeUp ==
    /\ game = "vc" /\ pc = "play"
    /\ ~gameOver /\ ~showHelp
    /\ timeLeft > 0
    /\ timeLeft' = 0
    /\ gameOver' = TRUE
    /\ highScore' = Max(highScore, score)
    /\ out' = [fn |-> "timeUp"]
    /\ UNCHANGED <<game, pc, graph, attempt, correct, selected, score, showCorrect, showHelp,
                   errorFlash, blockedEdgeIdx, hasInteracted, pending>>

\* startNext() and the two renders that follow.  The first holds the new graph
\* and the selection of the old one: the reset effect sets a new empty Set and
\* the win check effect runs on the old selection.  The second holds the empty
\* selection, on which the win check effect runs again.
vcInstall(next, base, timers) ==
    LET wins == vcCheck(next, selected) + vcCheck(next, {})
    IN /\ graph' = next
       /\ correct' = getMinVertexCoverNodes(nodeLen(next), next.edges)
       /\ selected' = {}
       /\ gameOver' = FALSE
       /\ timeLeft' = vcTIMER
       /\ base + wins <= MaxWins
       /\ score' = base + wins
       /\ pending' = timers + wins
       /\ pending' <= MaxPending

\* The timeout callback setTimeout(startNext, 500).
VcStartNext ==
    /\ game = "vc" /\ pc = "play"
    /\ pending > 0
    /\ \E next \in VcRounds : vcInstall(next, score, pending - 1)
    /\ out' = [fn |-> "startNext"]
    /\ UNCHANGED <<game, pc, attempt, highScore, showCorrect, showHelp, errorFlash,
                   blockedEdgeIdx, hasInteracted>>

\* handleRetry (the Retry button of the game-over view): setScore(0); startNext().
VcRetry ==
    /\ game = "vc" /\ pc = "play"
    /\ gameOver
    /\ \E next \in VcRounds : vcInstall(next, 0, pending)
    /\ out' = [fn |-> "handleRetry"]
    /\ UNCHANGED <<game, pc, attempt, highScore, showCorrect, showHelp, errorFlash,
                   blockedEdgeIdx, hasInteracted>>

\* The component after its first render and its effects.
InitVc ==
    /\ game = "vc"
    /\ pc = "play"
    /\ graph \in VcRounds
    /\ out = [fn |-> "none"]
    /\ attempt = 0
    /\ correct = getMinVertexCoverNodes(nodeLen(graph), graph.edges)
    /\ selected = {}
    /\ score = 0
    /\ highScore = 0
    /\ timeLeft = vcTIMER
    /\ gameOver = FALSE
    /\ showCorrect = FALSE
    /\ showHelp = FALSE
    /\ errorFlash = FALSE
    /\ blockedEdgeIdx = null
    /\ hasInteracted = FALSE
    /\ pending = 0

NextVc ==
    \/ VcNodeClick
    \/ VcFlashOff
    \/ VcTimeUp
    \/ VcStartNext
    \/ VcRetry

SpecVc == InitVc /\ [][NextVc]_vars

----------------------------------------------------------------------------
\* Partition game component (PartitionGame.jsx).  selected holds the moved
\* array; out.fn names the handler or callback that ran last.

\* Values the random source yields for the indices of a problem, in turn.
PartDraws == {<<1, 1, 2>>, <<2, 1, 1>>, <<1, 2, 1>>, <<2, 2, 1>>}

\* The problems generatePartitionProblem returns on these draws, of two or
\* three items.
PartRounds ==
    UNION {{[values |-> derive(mask, [i \in 0..(size - 1) |-> draw[i + 1]]), mask |-> mask] :
               draw \in PartDraws,
               mask \in {m \in [0..(size - 1) -> BOOLEAN] : ~trivialMask(m)}} : size \in 2..3}
    \ {[values |-> nullArr, mask |-> mask] :
         mask \in UNION {[0..(size - 1) -> BOOLEAN] : size \in 2..3}}

\* values.reduce((sum, v, i) => sum + (moved[i] ? 0 : v), 0)
topSum(problem, moved) ==
    reduceSum(problem.values,
              [i \in DOMAIN problem.values |-> ~(i \in DOMAIN moved /\ moved[i])], 0)

\* values.reduce((sum, v, i) => sum + (moved[i] ? v : 0), 0)
bottomSum(problem, moved) == reduceSum(problem.values, moved, 0)

\* The check for a correct partition, run after a render in which topSum,
\* bottomSum or gameOver changed: TRUE when it scores.
partWins(problem, moved, over) ==
    /\ ~over
    /\ topSum(problem, moved) = bottomSum(problem, moved)

\* handleToggle(i), followed by the check for a correct partition.  The
\* handler returns at once while gameOver or showHelp.
PartToggle ==
    /\ game = "partition" /\ pc = "play"
    /\ \E i \in DOMAIN graph.values :
           LET ignored == clickIgnored(gameOver, showHelp)
               next == IF ignored THEN selected ELSE [selected EXCEPT ![i] = ~selected[i]]
               win == /\ \/ topSum(graph, next) # topSum(graph, selected)
                         \/ bottomSum(graph, next) # bottomSum(graph, selected)
                      /\ partWins(graph, next, gameOver)
           IN /\ selected' = next
              /\ win => (score < MaxWins /\ pending < MaxPending)
              /\ score' = IF win THEN score + 1 ELSE score
              /\ pending' = IF win THEN pending + 1 ELSE pending
    /\ out' = [fn |-> "handleToggle"]
    /\ UNCHANGED <<game, pc, graph, attempt, correct, highScore, timeLeft, gameOver,
                   showCorrect, showHelp, errorFlash, blockedEdgeIdx, hasInteracted>>

\* The countdown running out: the interval callback has brought timeLeft to 0
\* and the timeout effect has fired.
PartTimeUp ==
    /\ game = "partition" /\ pc = "play"
    /\ ~gameOver /\ ~showHelp
    /\ timeLeft > 0
    /\ timeLeft' = 0
    /\ gameOver' = TRUE
    /\ highScore' = Max(highScore, score)
    /\ out' = [fn |-> "timeUp"]
    /\ UNCHANGED <<game, pc, graph, attempt, correct, selected, score, showCorrect, showHelp,
                   errorFlash, blockedEdgeIdx, hasInteracted, pending>>

\* The timeout callback setProblem(generatePartitionProblem()).  The render
\* that follows holds the new values and the moved array of the old problem:
\* the check runs on them when topSum or bottomSum changed, and the reset
\* effect sets moved, the time and gameOver for the render after it, whose
\* bottomSum is 0.
PartStartNext ==
    /\ game = "partition" /\ pc = "play"
    /\ pending > 0
    /\ \E next \in PartRounds :
           LET win == /\ \/ topSum(next, selected) # topSum(graph, selected)
                         \/ bottomSum(next, selected) # bottomSum(graph, selected)
                      /\ partWins(next, selected, gameOver)
           IN /\ graph' = next
              /\ selected' = fillFalse(next.values)
              /\ timeLeft' = partTIMER
              /\ gameOver' = FALSE
              /\ win => score < MaxWins
              /\ score' = IF win THEN score + 1 ELSE score
              /\ pending' = IF win THEN pending ELSE pending - 1
    /\ out' = [fn |-> "setProblem"]
    /\ UNCHANGED <<game, pc, attempt, correct, highScore, showCorrect, showHelp, errorFlash,
                   blockedEdgeIdx, hasInteracted>>

\* handleRetry (the Retry button of the game-over view): setScore(0) and
\* setProblem(generatePartitionProblem()).  The render that follows still has
\* gameOver true and the old timeLeft: the check returns at once, the reset
\* effect sets moved, the time and gameOver = false, and the timeout effect,
\* run when the score changed, sets gameOver = true again while the old
\* timeLeft is 0.
PartRetry ==
    /\ game = "partition" /\ pc = "play"
    /\ gameOver
    /\ \E next \in PartRounds :
           /\ graph' = next
           /\ selected' = fillFalse(next.values)
    /\ score' = 0
    /\ timeLeft' = partTIMER
    /\ gameOver' = (score # 0 /\ timeLeft <= 0)
    /\ out' = [fn |-> "handleRetry"]
    /\ UNCHANGED <<game, pc, attempt, correct, highScore, showCorrect, showHelp, errorFlash,
                   blockedEdgeIdx, hasInteracted, pending>>

\* The component after its first render: initProblem = generatePartitionProblem().
InitPart ==
    /\ game = "partition"
    /\ pc = "play"
    /\ graph \in PartRounds
    /\ out = [fn |-> "none"]
    /\ attempt = 0
    /\ correct = {}
    /\ selected = fillFalse(graph.values)
    /\ score = 0
    /\ highScore = 0
    /\ timeLeft = partTIMER
    /\ gameOver = FALSE
    /\ showCorrect = FALSE
    /\ showHelp = FALSE
    /\ errorFlash = FALSE
    /\ blockedEdgeIdx = null
    /\ hasInteracted = FALSE
    /\ pending = 0

NextPart ==
    \/ PartToggle
    \/ PartTimeUp
    \/ PartStartNext
    \/ PartRetry

SpecPart == InitPart /\ [][NextPart]_vars

\* The three games whose win check reads a sum or a cover of the selection.
InitInstall == InitVc \/ InitPart \/ InitSs

NextInstall ==
    \/ VcNodeClick
    \/ VcFlashOff
    \/ VcTimeUp
    \/ VcStartNext
    \/ VcRetry
    \/ PartToggle
    \/ PartTimeUp
    \/ PartStartNext
    \/ PartRetry
    \/ SsToggle
    \/ SsTimeUp
    \/ SsStartNext
    \/ SsRetry

SpecInstall == InitInstall /\ [][NextInstall]_vars

----------------------------------------------------------------------------
\* 3-SAT game component (ThreeSatGame.jsx).  graph holds the formula, selected
\* the array of booleans; out.fn names the handler or callback that ran last.

\* const TIMER = 3
satTIMER == 3

\* Timeout callbacks that may be waiting at once in the runs of this game.
MaxTimers == 2

\* Outcomes of Math.random() < 0.5 for the three literals of a clause.
SatNegDraws == {<<FALSE, FALSE, FALSE>>, <<TRUE, FALSE, FALSE>>, <<FALSE, TRUE, TRUE>>}

\* The formulas generateFormula(3, 2) returns when the hidden assignment is
\* one of two, the variables of both clauses are drawn as 0, 1, 2 and idx as 0.
SatRounds ==
    {f \in {[clauses |-> <<forceMatch([i \in 1..3 |-> [var |-> i - 1, neg |-> n1[i]]], 0, a),
                           forceMatch([i \in 1..3 |-> [var |-> i - 1, neg |-> n2[i]]], 0, a)>>,
             assignment |-> a,
             numVars |-> 3] :
                a \in {[v \in 0..2 |-> v = 1], [v \in 0..2 |-> v # 1]},
                n1 \in SatNegDraws, n2 \in SatNegDraws} :
        ~allFalseSatisfies(f.clauses)}

\* The satisfaction check effect, run after a render in which selected,
\* hasInteracted or formula changed: TRUE when it scores.
satWins(formula, sel, interacted) ==
    /\ interacted
    /\ sat(formula.clauses, sel)

\* handleToggle(v), followed by the satisfaction check effect, which clears
\* hasInteracted when it scores.  The handler returns at once while gameOver
\* or showHelp is true.
SatToggle ==
    /\ game = "sat" /\ pc = "play"
    /\ \E v \in 0..(graph.numVars - 1) :
           LET ignored == clickIgnored(gameOver, showHelp)
               next == IF ignored THEN selected ELSE [selected EXCEPT ![v] = ~selected[v]]
               win == ~ignored /\ satWins(graph, next, TRUE)
           IN /\ selected' = next
              /\ win => (score < MaxWins /\ pending < MaxTimers)
              /\ hasInteracted' = IF ignored THEN hasInteracted ELSE ~win
              /\ score' = IF win THEN score + 1 ELSE score
              /\ pending' = IF win THEN pending + 1 ELSE pending
    /\ out' = [fn |-> "handleToggle"]
    /\ UNCHANGED <<game, pc, graph, attempt, correct, highScore, timeLeft, gameOver,
                   showCorrect, showHelp, errorFlash, blockedEdgeIdx>>

\* The countdown running out: the interval callback has brought timeLeft to 0
\* and the time up effect has fired.
SatTimeUp ==
    /\ game = "sat" /\ pc = "play"
    /\ ~gameOver /\ ~showHelp
    /\ timeLeft > 0
    /\ timeLeft' = 0
    /\ gameOver' = TRUE
    /\ highScore' = Max(highScore, score)
    /\ out' = [fn |-> "timeUp"]
    /\ UNCHANGED <<game, pc, graph, attempt, correct, selected, score, showCorrect, showHelp,
                   errorFlash, blockedEdgeIdx, hasInteracted, pending>>

\* The render after setFormula(next) and its effects.  It holds the new
\* formula with the selection and hasInteracted of the old one, on which the
\* satisfaction check runs; the reset effects set the selection, hasInteracted
\* and the time.  over is gameOver as the time up effect leaves it.
satInstall(next, base, timers, over) ==
    LET win == satWins(next, selected, hasInteracted)
    IN /\ graph' = next
       /\ selected' = allFalse(next.numVars)
       /\ hasInteracted' = FALSE
       /\ timeLeft' = satTIMER
       /\ gameOver' = over
       /\ win => (base < MaxWins /\ timers < MaxTimers)
       /\ score' = IF win THEN base + 1 ELSE base
       /\ pending' = IF win THEN timers + 1 ELSE timers

\* The timeout callback: setFormula(generateFormula()); setGameOver(false).
\* The time up effect does not run: timeLeft and score are as they were.
SatStartNext ==
    /\ game = "sat" /\ pc = "play"
    /\ pending > 0
    /\ \E next \in SatRounds : satInstall(next, score, pending - 1, FALSE)
    /\ out' = [fn |-> "setFormula"]
    /\ UNCHANGED <<game, pc, attempt, correct, highScore, showCorrect, showHelp, errorFlash,
                   blockedEdgeIdx>>

\* handleRetry (the Retry button of the game-over view): setScore(0),
\* setFormula(generateFormula()), setGameOver(false).  When the score changed,
\* the time up effect runs in the render that still holds the old timeLeft and
\* sets gameOver again if that is 0.
SatRetry ==
    /\ game = "sat" /\ pc = "play"
    /\ gameOver
    /\ \E next \in SatRounds : satInstall(next, 0, pending, score # 0 /\ timeLeft <= 0)
    /\ out' = [fn |-> "handleRetry"]
    /\ UNCHANGED <<game, pc, attempt, correct, highScore, showCorrect, showHelp, errorFlash,
                   blockedEdgeIdx>>

\* The component after its first render: init = generateFormula().
InitSatGame ==
    /\ game = "sat"
    /\ pc = "play"
    /\ graph \in SatRounds
    /\ out = [fn |-> "none"]
    /\ attempt = 0
    /\ correct = {}
    /\ selected = allFalse(graph.numVars)
    /\ score = 0
    /\ highScore = 0
    /\ timeLeft = satTIMER
    /\ gameOver = FALSE
    /\ showCorrect = FALSE
    /\ showHelp = FALSE
    /\ errorFlash = FALSE
    /\ blockedEdgeIdx = null
    /\ hasInteracted = FALSE
    /\ pending = 0

NextSatGame ==
    \/ SatToggle
    \/ SatTimeUp
    \/ SatStartNext
    \/ SatRetry

SpecSatGame == InitSatGame /\ [][NextSatGame]_vars

----------------------------------------------------------------------------
\* The placement loop of planarLayout (TravelingSalesmanGame.jsx), pass by pass.
\* out holds placed and the point drawn last.

\* x = Math.random() * (width - 2 * radius) + radius, and y: the body of the do
\* loop for node i = placed.length.
LayoutDraw ==
    /\ game = "layout" /\ pc = "do"
    /\ \E p \in TspPoints : out' = [out EXCEPT !.x = p[1], !.y = p[2]]
    /\ pc' = "while"
    /\ UNCHANGED <<game, graph, attempt, correct, ui>>

\* placed.some(p => Math.hypot(p.x - x, p.y - y) < minDist)
tooClose(placed, x, y) ==
    \E k \in 1..Len(placed) :
        (placed[k].x - x) * (placed[k].x - x) + (placed[k].y - y) * (placed[k].y - y)
            < tspMinDist * tspMinDist

\* The while condition of the do loop: the body is entered again, or the point
\* is pushed and the for loop goes on to the next node or ends with the return.
LayoutTest ==
    /\ game = "layout" /\ pc = "while"
    /\ IF tooClose(out.placed, out.x, out.y)
       THEN /\ pc' = "do"
            /\ UNCHANGED out
       ELSE LET placed == Append(out.placed, [id |-> Len(out.placed), x |-> out.x, y |-> out.y])
            IN /\ out' = [out EXCEPT !.placed = placed]
               /\ pc' = IF Len(placed) < graph.n THEN "do" ELSE "returned"
    /\ UNCHANGED <<game, graph, attempt, correct, ui>>

\* planarLayout(nodes, width, height, radius) entered with nodes.length = n.
InitLayout ==
    /\ game = "layout"
    /\ pc = "do"
    /\ graph \in [n : TspNodeCounts]
    /\ out = [fn |-> "planarLayout", placed |-> <<>>, x |-> 0, y |-> 0]
    /\ attempt = 0
    /\ correct = {}
    /\ NoComponent

NextLayout ==
    \/ LayoutDraw
    \/ LayoutTest

\* The call keeps running: a pass that can be taken is taken.
SpecLayout == InitLayout /\ [][NextLayout]_vars /\ WF_vars(NextLayout)

----------------------------------------------------------------------------
\* generatePlanarGraph of VertexCoverGame.jsx pass by pass, on node counts the
\* source draws (6..9).  graph holds nodes, out the edges and the loop indices.

\* Points the random source yields in turn for the placement loop: two groups
\* of four in opposite corners, group after group or alternating, and a
\* spread-out set.
PlanarDraws ==
    {<<<<20, 20>>, <<120, 20>>, <<20, 120>>, <<120, 120>>,
       <<270, 270>>, <<370, 270>>, <<270, 370>>, <<370, 370>>>>,
     <<<<20, 20>>, <<270, 270>>, <<120, 20>>, <<370, 270>>,
       <<20, 120>>, <<270, 370>>, <<120, 120>>, <<370, 370>>>>,
     <<<<373, 91>>, <<116, 60>>, <<374, 197>>, <<242, 64>>,
       <<371, 343>>, <<66, 161>>, <<106, 307>>, <<239, 310>>>>}

\* const nodeCount = Math.floor(Math.random() * 4) + 6, up to the draws' length.
PlanarDrawCounts == 6..8

\* The nodes array after the placement loop when no draw is rejected.
placed(draw, n) == [i \in 0..(n - 1) |-> [id |-> i, x |-> draw[i + 1][1], y |-> draw[i + 1][2]]]

\* !nodes.some(n => Math.hypot(n.x - x, n.y - y) < minDist) for every push
accepted(nodes) ==
    \A i \in DOMAIN nodes : \A j \in DOMAIN nodes :
        i < j => ~(dist2(nodes[i], nodes[j]) < minDist * minDist)

\* One pass of for (j = 1; j <= 3 && j < dists.length; j++) for node i, then
\* the step to the next j or the next i; after the last node the loop is left.
PlanarTry ==
    /\ game = "planar" /\ pc = "edges"
    /\ LET n == nodeLen(graph)
           i == out.i
           j == out.j
           v == sortByDist(graph.nodes, n, i)[j + 1]
           edges == IF hasPair(out.edges, i, v) \/ crosses(graph.nodes, out.edges, i, v)
                    THEN out.edges
                    ELSE Append(out.edges, Edge(i, v))
           more == j + 1 <= 3 /\ j + 1 < n
       IN /\ out' = [out EXCEPT !.edges = edges,
                                !.i = IF more THEN i ELSE i + 1,
                                !.j = IF more THEN j + 1 ELSE 1]
          /\ pc' = IF ~more /\ i + 1 >= n THEN "patch" ELSE "edges"
    /\ UNCHANGED <<game, graph, attempt, correct, ui>>

\* if (edges.length < nodeCount - 1) { ... }; k = findMinVertexCover(...); return
PlanarReturn ==
    /\ game = "planar" /\ pc = "patch"
    /\ LET n == nodeLen(graph)
           edges == pathPatch(n, out.edges)
       IN /\ graph' = Instance(graph.nodes, edges, findMinVertexCover(n, edges))
          /\ out' = [fn |-> "generatePlanarGraph", patched |-> Len(out.edges) < n - 1]
    /\ pc' = "returned"
    /\ UNCHANGED <<game, attempt, correct, ui>>

\* generatePlanarGraph() after its placement loop.
InitPlanar ==
    /\ game = "planar"
    /\ pc = "edges"
    /\ \E draw \in PlanarDraws : \E n \in PlanarDrawCounts :
           /\ accepted(placed(draw, n))
           /\ graph = [nodes |-> placed(draw, n), edges |-> <<>>]
    /\ out = [fn |-> "generatePlanarGraph", i |-> 0, j |-> 1, edges |-> <<>>]
    /\ attempt = 0
    /\ correct = {}
    /\ NoComponent

NextPlanar ==
    \/ PlanarTry
    \/ PlanarReturn

SpecPlanar == InitPlanar /\ [][NextPlanar]_vars

----------------------------------------------------------------------------
\* generateHamiltonianGraph and the generators of the subset games, pass by pass.

\* One pass of the retry loop of generateHamiltonianGraph: the node count, the
\* shuffled cycle and the coin flips of the extra-edge loop are drawn, the
\* instance is returned when findHamiltonianCycle finds a cycle.
HamGenerateGraph ==
    /\ game = "ham" /\ pc = "generateHamiltonianGraph"
    /\ \E n \in HamNodeCounts : \E c \in Shuffles(n) : \E keep \in SUBSET freePairs(n, c) :
           LET p == hamPass(n, c, keep)
           IN Pass(p.accepted, p.instance, maxAttempts20,
                   [nodes |-> idNodes(3), edges |-> <<Edge(0, 1), Edge(1, 2), Edge(2, 0)>>,
                    cycle |-> <<0, 1, 2>>])
    /\ UNCHANGED <<game, out, correct, ui>>

InitHamGen ==
    /\ game = "ham"
    /\ pc = "generateHamiltonianGraph"
    /\ graph = [nodes |-> <<>>, edges |-> <<>>]
    /\ out = [fn |-> "none"]
    /\ attempt = 0
    /\ correct = {}
    /\ NoComponent

InitGenerators == InitGen \/ InitHamGen

NextGenerators ==
    \/ VCGenerateGraph
    \/ VCGeneratePlanarGraph
    \/ ISGenerateGraph
    \/ ISGeneratePlanarGraph
    \/ CliqueGenerateGraph
    \/ CliqueGeneratePlanarGraph
    \/ generate3ColorableGraph
    \/ Mount
    \/ HamGenerateGraph

SpecGenerators == InitGenerators /\ [][NextGenerators]_vars

----------------------------------------------------------------------------
\* The render of the Hamiltonian cycle game (HamCycleGame.jsx, first module).

\* selected.map((v, i) => [v, selected[(i + 1) % selected.length]])
\*     .slice(0, selected.length > 1 ? selected.length : 0)
highlightEdges(sel) ==
    IF Len(sel) > 1 THEN [i \in 1..Len(sel) |-> <<sel[i], sel[(i % Len(sel)) + 1]>>]
    ELSE <<>>

\* graph.cycle.map((v, i) => [v, graph.cycle[(i + 1) % graph.cycle.length]])
correctEdges(cycle) == [i \in 1..Len(cycle) |-> <<cycle[i], cycle[(i % Len(cycle)) + 1]>>]

\* What the component shows: the heading, the edges drawn bold by renderSVG,
\* whether the countdown is shown, and the buttons that start or restart a round.
hamRender ==
    [heading |-> IF showCorrect THEN "Correct!"
                 ELSE IF gameOver THEN "Time's up!"
                 ELSE "Hamiltonian Cycle Challenge",
     bold |-> IF showCorrect THEN correctEdges(graph.cycle) ELSE highlightEdges(selected),
     stats |-> ~gameOver /\ ~showCorrect,
     buttons |-> {"Main Menu", "?", "Reset"}]

----------------------------------------------------------------------------
\* Independent set game (IndependentSetGame.jsx): the component.

\* const TIMER = 30
isTIMER == 30

\* newRound(): the graphs generateGraph() returns, of two or three nodes here.
IsRounds ==
    {LET edges == forceEdge(drawn)
     IN Instance(idNodes(n), edges, Cardinality(getMaxIndependentSetNodes(n, edges))) :
        <<n, drawn>> \in UNION {{<<m, d>> : d \in RandomEdgeLists(m)} : m \in 2..3}}

\* graph.edges.findIndex(({u, v}) => (u === id && c.has(v)) || (v === id && c.has(u))):
\* the 0-based index of the first such edge, -1 when there is none.
findIndex(edges, id, c) ==
    LET hits == {e \in 1..Len(edges) :
                    \/ edges[e].u = id /\ edges[e].v \in c
                    \/ edges[e].v = id /\ edges[e].u \in c}
    IN IF hits = {} THEN -1
       ELSE (CHOOSE e \in hits : \A f \in hits : e <= f) - 1

\* setBlockedEdgeIdx(conflictIdx !== -1 ? conflictIdx : null) of an added node.
conflictOf(edges, id, c) ==
    IF findIndex(edges, id, c) # -1 THEN findIndex(edges, id, c) ELSE null

\* The win check effect run once on a render: 1 when it scores.
isCheck(g, sel) == IF isWins(g, sel) THEN 1 ELSE 0

\* handleNodeClick(id), followed by the win check effect.
IsNodeClick ==
    /\ game = "is" /\ pc = "play"
    /\ ~(gameOver \/ showHelp)
    /\ \E id \in DOMAIN graph.nodes :
           LET c == IF id \in selected THEN selected \ {id} ELSE selected \cup {id}
               wins == isCheck(graph, c)
           IN /\ selected' = c
              /\ blockedEdgeIdx' = IF id \in selected THEN null
                                   ELSE conflictOf(graph.edges, id, c)
              /\ wins > 0 => (score < MaxWins /\ pending < MaxPending)
              /\ score' = score + wins
              /\ pending' = pending + wins
    /\ out' = [fn |-> "handleNodeClick"]
    /\ UNCHANGED <<game, pc, graph, attempt, correct, highScore, timeLeft, gameOver,
                   showCorrect, showHelp, errorFlash, hasInteracted>>

\* The countdown running out: the interval callback has brought timeLeft to 0
\* and the time up effect has fired.
IsTimeUp ==
    /\ game = "is" /\ pc = "play"
    /\ ~gameOver /\ ~showHelp
    /\ timeLeft > 0
    /\ timeLeft' = 0
    /\ gameOver' = TRUE
    /\ highScore' = Max(highScore, score)
    /\ out' = [fn |-> "timeUp"]
    /\ UNCHANGED <<game, pc, graph, attempt, correct, selected, score, showCorrect, showHelp,
                   errorFlash, blockedEdgeIdx, hasInteracted, pending>>

\* startNext() and the two renders that follow: setLayout, setGraph,
\* setGameOver(false), setTimeLeft(TIMER); the effect on [graph] sets a new
\* empty Set, and the win check effect runs on the old selection and then on
\* the empty one.  Nothing sets blockedEdgeIdx.
isInstall(next, base, timers) ==
    LET wins == isCheck(next, selected) + isCheck(next, {})
    IN /\ graph' = next
       /\ selected' = {}
       /\ gameOver' = FALSE
       /\ timeLeft' = isTIMER
       /\ base + wins <= MaxWins
       /\ score' = base + wins
       /\ pending' = timers + wins
       /\ pending' <= MaxPending

\* The timeout callback setTimeout(startNext, 500).
IsStartNext ==
    /\ game = "is" /\ pc = "play"
    /\ pending > 0
    /\ \E next \in IsRounds : isInstall(next, score, pending - 1)
    /\ out' = [fn |-> "startNext"]
    /\ UNCHANGED <<game, pc, attempt, correct, highScore, showCorrect, showHelp, errorFlash,
                   blockedEdgeIdx, hasInteracted>>

\* handleRetry (the Try Again button of the game-over view): setScore(0); startNext().
IsRetry ==
    /\ game = "is" /\ pc = "play"
    /\ gameOver
    /\ \E next \in IsRounds : isInstall(next, 0, pending)
    /\ out' = [fn |-> "handleRetry"]
    /\ UNCHANGED <<game, pc, attempt, correct, highScore, showCorrect, showHelp, errorFlash,
                   blockedEdgeIdx, hasInteracted>>

\* The component after its first render and its effects.
InitIs ==
    /\ game = "is"
    /\ pc = "play"
    /\ graph \in IsRounds
    /\ out = [fn |-> "none"]
    /\ attempt = 0
    /\ correct = {}
    /\ selected = {}
    /\ score = 0
    /\ highScore = 0
    /\ timeLeft = isTIMER
    /\ gameOver = FALSE
    /\ showCorrect = FALSE
    /\ showHelp = FALSE
    /\ errorFlash = FALSE
    /\ blockedEdgeIdx = null
    /\ hasInteracted = FALSE
    /\ pending = 0

NextIs ==
    \/ IsNodeClick
    \/ IsTimeUp
    \/ IsStartNext
    \/ IsRetry

SpecIs == InitIs /\ [][NextIs]_vars

----------------------------------------------------------------------------
\* The countdown of the Hamiltonian cycle game, tick by tick.

\* Mutant: a tick adds a second.
mutTick(t) == t + 1

\* The interval callback: setTimeLeft(t => t - 1)
tick(t) == t - 1

\* One tick of the interval, which runs while !gameOver && !showHelp &&
\* !showCorrect, followed by the time-up effect: if (timeLeft <= 0)
\* setGameOver(true), setHighScore(h => Math.max(h, score)).
HamTick ==
    /\ game = "ham"
    /\ ~gameOver /\ ~showHelp /\ ~showCorrect
    /\ timeLeft' = tick(timeLeft)
    /\ gameOver' = (timeLeft' <= 0)
    /\ highScore' = IF timeLeft' <= 0 THEN Max(highScore, score) ELSE highScore
    /\ UNCHANGED <<game, pc, graph, out, attempt, correct, selected, score, showCorrect,
                   showHelp, errorFlash, blockedEdgeIdx, hasInteracted, pending>>

----------------------------------------------------------------------------
\* The countdown and the help overlay of the vertex cover game, tick by tick.

\* One tick of the interval, which runs while !gameOver && !showHelp, followed
\* by the time up effect: if (timeLeft <= 0) setGameOver(true),
\* setHighScore(hs => Math.max(hs, score)).
VcTick ==
    /\ game = "vc" /\ pc = "play"
    /\ ~gameOver /\ ~showHelp
    /\ timeLeft' = tick(timeLeft)
    /\ gameOver' = (timeLeft' <= 0)
    /\ highScore' = IF timeLeft' <= 0 THEN Max(highScore, score) ELSE highScore
    /\ out' = [fn |-> "tick"]
    /\ UNCHANGED <<game, pc, graph, attempt, correct, selected, score, showCorrect, showHelp,
                   errorFlash, blockedEdgeIdx, hasInteracted, pending>>

\* The help button: onClick={() => setShowHelp(true)}
VcOpenHelp ==
    /\ game = "vc" /\ pc = "play"
    /\ showHelp' = TRUE
    /\ out' = [fn |-> "openHelp"]
    /\ UNCHANGED <<game, pc, graph, attempt, correct, selected, score, highScore, timeLeft,
                   gameOver, showCorrect, errorFlash, blockedEdgeIdx, hasInteracted, pending>>

\* The overlay and its button: onClick={() => setShowHelp(false)}
VcCloseHelp ==
    /\ game = "vc" /\ pc = "play"
    /\ showHelp
    /\ showHelp' = FALSE
    /\ out' = [fn |-> "closeHelp"]
    /\ UNCHANGED <<game, pc, graph, attempt, correct, selected, score, highScore, timeLeft,
                   gameOver, showCorrect, errorFlash, blockedEdgeIdx, hasInteracted, pending>>

----------------------------------------------------------------------------
\* The countdown and the help overlay of the 3-SAT game, tick by tick.

\* One tick of the interval, which runs while !gameOver && !showHelp, followed
\* by the time up effect.
SatTick ==
    /\ game = "sat" /\ pc = "play"
    /\ ~gameOver /\ ~showHelp
    /\ timeLeft' = tick(timeLeft)
    /\ gameOver' = (timeLeft' <= 0)
    /\ highScore' = IF timeLeft' <= 0 THEN Max(highScore, score) ELSE highScore
    /\ out' = [fn |-> "tick"]
    /\ UNCHANGED <<game, pc, graph, attempt, correct, selected, score, showCorrect, showHelp,
                   errorFlash, blockedEdgeIdx, hasInteracted, pending>>

\* The help button: onClick={() => setShowHelp(true)}
SatOpenHelp ==
    /\ game = "sat" /\ pc = "play"
    /\ showHelp' = TRUE
    /\ out' = [fn |-> "openHelp"]
    /\ UNCHANGED <<game, pc, graph, attempt, correct, selected, score, highScore, timeLeft,
                   gameOver, showCorrect, errorFlash, blockedEdgeIdx, hasInteracted, pending>>

\* The overlay and its button: onClick={() => setShowHelp(false)}
SatCloseHelp ==
    /\ game = "sat" /\ pc = "play"
    /\ showHelp
    /\ showHelp' = FALSE
    /\ out' = [fn |-> "closeHelp"]
    /\ UNCHANGED <<game, pc, graph, attempt, correct, selected, score, highScore, timeLeft,
                   gameOver, showCorrect, errorFlash, blockedEdgeIdx, hasInteracted, pending>>

----------------------------------------------------------------------------
\* The countdown and the help overlay of the partition game, tick by tick.

\* One tick of the interval, which runs while !gameOver && !showHelp, followed
\* by the timeout effect.
PartTick ==
    /\ game = "partition" /\ pc = "play"
    /\ ~gameOver /\ ~showHelp
    /\ timeLeft' = tick(timeLeft)
    /\ gameOver' = (timeLeft' <= 0)
    /\ highScore' = IF timeLeft' <= 0 THEN Max(highScore, score) ELSE highScore
    /\ out' = [fn |-> "tick"]
    /\ UNCHANGED <<game, pc, graph, attempt, correct, selected, score, showCorrect, showHelp,
                   errorFlash, blockedEdgeIdx, hasInteracted, pending>>

\* The help button: onClick={() => setShowHelp(true)}
PartOpenHelp ==
    /\ game = "partition" /\ pc = "play"
    /\ showHelp' = TRUE
    /\ out' = [fn |-> "openHelp"]
    /\ UNCHANGED <<game, pc, graph, attempt, correct, selected, score, highScore, timeLeft,
                   gameOver, showCorrect, errorFlash, blockedEdgeIdx, hasInteracted, pending>>

\* The overlay and its button: onClick={() => setShowHelp(false)}
PartCloseHelp ==
    /\ game = "partition" /\ pc = "play"
    /\ showHelp
    /\ showHelp' = FALSE
    /\ out' = [fn |-> "closeHelp"]
    /\ UNCHANGED <<game, pc, graph, attempt, correct, selected, score, highScore, timeLeft,
                   gameOver, showCorrect, errorFlash, blockedEdgeIdx, hasInteracted, pending>>

\* The number of items of a partition problem.
partSize(problem) == Cardinality(DOMAIN problem.values)

\* The four games with their countdowns tick by tick.  The instances are the
\* small ones: Hamiltonian graphs of up to four nodes, the vertex cover graph
\* of two nodes, partition problems of two items.
InitClock ==
    \/ InitHam /\ nodeLen(graph) <= 4
    \/ InitVc /\ nodeLen(graph) <= 2
    \/ InitSatGame
    \/ InitPart /\ partSize(graph) <= 2

NextClock ==
    \/ HamNodeClick
    \/ HamTick
    \/ HamResetRound
    \/ HamStartNext /\ nodeLen(graph') <= 4
    \/ VcNodeClick
    \/ VcFlashOff
    \/ VcTick
    \/ VcOpenHelp
    \/ VcCloseHelp
    \/ VcStartNext /\ nodeLen(graph') <= 2
    \/ VcRetry /\ nodeLen(graph') <= 2
    \/ SatToggle
    \/ SatTick
    \/ SatOpenHelp
    \/ SatCloseHelp
    \/ SatStartNext
    \/ SatRetry
    \/ PartToggle
    \/ PartTick
    \/ PartOpenHelp
    \/ PartCloseHelp
    \/ PartStartNext /\ partSize(graph') <= 2
    \/ PartRetry /\ partSize(graph') <= 2

SpecClock == InitClock /\ [][NextClock]_vars

----------------------------------------------------------------------------
\* Reference definitions the solvers are compared with.  They range over all
\* subsets or all orderings and share no code with the solvers above.

hasEdge(edges, a, b) ==
    \E k \in 1..Len(edges) :
        \/ edges[k].u = a /\ edges[k].v = b
        \/ edges[k].u = b /\ edges[k].v = a

IsCover(edges, S) == \A k \in 1..Len(edges) : edges[k].u \in S \/ edges[k].v \in S

IsIndependent(edges, S) == \A a \in S : \A b \in S : ~hasEdge(edges, a, b)

IsClique(edges, S) == \A a \in S : \A b \in S : a # b => hasEdge(edges, a, b)

MinSize(family) == CHOOSE m \in {Cardinality(S) : S \in family} :
                       \A S \in family : Cardinality(S) >= m

MaxSize(family) == CHOOSE m \in {Cardinality(S) : S \in family} :
                       \A S \in family : Cardinality(S) <= m

Covers(n, edges) == {S \in SUBSET (0..(n - 1)) : IsCover(edges, S)}

IndependentSets(n, edges) == {S \in SUBSET (0..(n - 1)) : IsIndependent(edges, S)}

Cliques(n, edges) == {S \in SUBSET (0..(n - 1)) : IsClique(edges, S)}

IsProperColoring(n, edges, col) ==
    /\ DOMAIN col = 0..(n - 1)
    /\ \A i \in 0..(n - 1) : col[i] \in {0, 1, 2}
    /\ \A k \in 1..Len(edges) : col[edges[k].u] # col[edges[k].v]

ThreeColorable(n, edges) ==
    \E col \in [0..(n - 1) -> {0, 1, 2}] : IsProperColoring(n, edges, col)

\* seq holds every node 0..n-1 once; consecutive entries and (last, first) are edges.
IsHamCycle(n, edges, seq) ==
    /\ Len(seq) = n
    /\ Range(seq) = 0..(n - 1)
    /\ \A i \in 1..n : hasEdge(edges, seq[i], seq[(i % n) + 1])

Hamiltonian(n, edges) ==
    \E seq \in [1..n -> 0..(n - 1)] : IsHamCycle(n, edges, seq)

Returned(fn) == game = "solver" /\ pc = "returned" /\ out.fn = fn

completeEdges(n) == allPairs(n)

----------------------------------------------------------------------------
\* C2: findMinVertexCover (the game's and the GraphUtils copy) returns the
\* minimum cardinality among all subsets of 0..n-1 that hold an endpoint of
\* every edge, and never null.
C2_MinCoverSize ==
    (Returned("findMinVertexCover") \/ Returned("utilsFindMinVertexCover")) =>
        /\ out.value # null
        /\ out.value = MinSize(Covers(graph.n, graph.edges))

\* A call on a graph whose minimum cover is neither empty nor a single node.
C2_Witness ==
    /\ Returned("findMinVertexCover")
    /\ out.value = 2
    /\ Len(graph.edges) >= 3

\* C3: getMaxIndependentSetNodes returns an independent set of maximum
\* cardinality, and the clique game's findMinVertexCover returns the maximum
\* clique size (4 on the complete graph with 4 nodes).
C3_MaxSolvers ==
    /\ Returned("getMaxIndependentSetNodes") =>
           /\ out.value \in IndependentSets(graph.n, graph.edges)
           /\ Cardinality(out.value) = MaxSize(IndependentSets(graph.n, graph.edges))
    /\ Returned("cliqueFindMinVertexCover") =>
           /\ out.value = MaxSize(Cliques(graph.n, graph.edges))
           /\ (graph.n = 4 /\ graph.edges = completeEdges(4)) => out.value = 4

\* The clique solver has returned on the complete graph with 4 nodes.
C3_Witness ==
    /\ Returned("cliqueFindMinVertexCover")
    /\ graph.n = 4
    /\ graph.edges = completeEdges(4)
    /\ out.value = 4

\* C4: find3Coloring(n, edges, 3) returns null only when the graph has no
\* proper 3-colouring.
C4_NullOnlyIfUncolorable ==
    (Returned("find3Coloring") /\ out.value = nullArr) =>
        ~ThreeColorable(graph.n, graph.edges)

\* C6: findHamiltonianCycle returns a Hamiltonian cycle of the graph whenever
\* one exists and null exactly when none exists.
C6_HamiltonianCycle ==
    Returned("findHamiltonianCycle") =>
        IF Hamiltonian(graph.n, graph.edges)
        THEN IsHamCycle(graph.n, graph.edges, out.value)
        ELSE out.value = nullArr

\* A cycle was found on a graph with 4 nodes that is not complete.
C6_Witness ==
    /\ Returned("findHamiltonianCycle")
    /\ graph.n = 4
    /\ Len(graph.edges) < 6
    /\ out.value # nullArr


\* C1: for every instance returned by generateGraph and generatePlanarGraph of
\* the vertex cover, independent set and clique games, the witness node set
\* the game computes for it satisfies the family's predicate on the instance's
\* edges and has exactly k elements.
C1_WitnessFeasible ==
    (pc = "mounted" /\ game \in {"vc", "is", "clique"}) =>
        /\ Cardinality(correct) = graph.k
        /\ correct \subseteq 0..(nodeLen(graph) - 1)
        /\ game = "vc" => IsCover(graph.edges, correct)
        /\ game = "is" => IsIndependent(graph.edges, correct)
        /\ game = "clique" => IsClique(graph.edges, correct)

\* A planar vertex cover instance with a cover of at least two nodes is installed.
C1_Witness ==
    /\ pc = "mounted"
    /\ game = "vc"
    /\ "x" \in DOMAIN graph.nodes[0]
    /\ graph.k >= 2
    /\ Cardinality(correct) = graph.k

\* C5: every instance returned by generate3ColorableGraph, the hardcoded
\* fallback included, carries a correctColoring that gives every node a colour
\* in {0,1,2} and no edge two endpoints of one colour (every non-null result
\* of find3Coloring is such a colouring).
C5_ProperColoring ==
    (game = "color" /\ pc \in {"returned", "mounted"}) =>
        IsProperColoring(nodeLen(graph), graph.edges, graph.correctColoring)

\* find3Coloring has returned a colouring that needs all three colours.
C5_Witness ==
    /\ game = "color"
    /\ pc = "returned"
    /\ attempt < maxAttempts20
    /\ Len(graph.edges) >= 3
    /\ {graph.correctColoring[i] : i \in DOMAIN graph.correctColoring} = {0, 1, 2}


\* sel is the cycle read from some position onwards, forwards or backwards.
IsRotation(cycle, sel) ==
    /\ Len(sel) = Len(cycle)
    /\ \E off \in 0..(Len(cycle) - 1) :
           \A i \in 1..Len(cycle) : sel[i] = cycle[((i - 1 + off) % Len(cycle)) + 1]

IsReflection(cycle, sel) ==
    /\ Len(sel) = Len(cycle)
    /\ \E off \in 0..(Len(cycle) - 1) :
           \A i \in 1..Len(cycle) :
               sel[i] = cycle[((off + Len(cycle) - (i - 1)) % Len(cycle)) + 1]

\* C8: in the Hamiltonian cycle game a selection that becomes full-length
\* scores exactly when it is a rotation of the stored cycle or the reverse of
\* a rotation.
C8_WinIffRotationOrReflection ==
    [][(game = "ham" /\ selected' # selected /\ Len(selected') = nodeLen(graph'))
          => ((score' = score + 1 /\ showCorrect')
                 <=> (IsRotation(graph'.cycle, selected')
                          \/ IsReflection(graph'.cycle, selected')))]_vars

\* A selection that is a backwards reading of the cycle, and no rotation of
\* it, has been judged a win.
C8_Witness ==
    /\ game = "ham"
    /\ showCorrect
    /\ score = 1
    /\ nodeLen(graph) = 4
    /\ Len(selected) = 4
    /\ ~IsRotation(graph.cycle, selected)
    /\ IsReflection(graph.cycle, selected)

\* The orderings of all n nodes, and the length of the closed tour through one.
Orderings(n) == {p \in [1..n -> 0..(n - 1)] : \A i \in 1..n : \A j \in 1..n : p[i] = p[j] => i = j}

RECURSIVE sumLegs(_, _, _)
sumLegs(nodes, p, i) ==
    IF i = 0 THEN 0
    ELSE dist(nodes[p[i]], nodes[p[(i % Len(p)) + 1]]) + sumLegs(nodes, p, i - 1)

CycleLen(nodes, p) == sumLegs(nodes, p, Len(p))

\* C7: getOptimalTour returns as bestLen the least closed-tour length over all
\* orderings of all n nodes, and as bestTour n+1 ids that start and end at
\* node 0, visit every node once and have total length bestLen.
C7_OptimalTour ==
    (game = "tspgen" /\ pc = "returned") =>
        LET nodes == graph.nodes
            n == Cardinality(DOMAIN nodes)
            t == out.value
        IN /\ \A p \in Orderings(n) : t.bestLen <= CycleLen(nodes, p)
           /\ \E p \in Orderings(n) : t.bestLen = CycleLen(nodes, p)
           /\ Len(t.bestTour) = n + 1
           /\ t.bestTour[1] = 0
           /\ t.bestTour[n + 1] = 0
           /\ {t.bestTour[i] : i \in 1..n} = 0..(n - 1)
           /\ CycleLen(nodes, SubSeq(t.bestTour, 1, n)) = t.bestLen

\* getOptimalTour has returned, on a layout with tours of different lengths, a
\* tour other than the first ordering it tried.
C7_Witness ==
    /\ game = "tspgen"
    /\ pc = "returned"
    /\ Cardinality(DOMAIN graph.nodes) = 4
    /\ out.value.bestTour # <<0, 1, 2, 3, 0>>
    /\ out.value.bestLen < CycleLen(graph.nodes, <<0, 1, 2, 3>>)

\* C9: in the travelling salesman game a click that completes the selection
\* scores exactly when the closed tour through the selection has length
\* optimalLen, and the length the win check computes is the same from every
\* start node and in both directions.
C9_WinIffOptimalLength ==
    [][(game = "tsp" /\ selected' # selected /\ Len(selected') = nodeLen(graph) + 1)
          => LET n == nodeLen(graph)
                 cyc == SubSeq(selected', 1, n)
             IN /\ (score' = score + 1) <=> (CycleLen(graph.nodes, cyc) = graph.optimalLen)
                /\ ~(score' = score + 1 /\ CycleLen(graph.nodes, cyc) > graph.optimalLen)
                /\ \A off \in 0..(n - 1) :
                       LET r == rotate(cyc, off)
                           b == reverse(r)
                       IN /\ reduceLen(graph.nodes, Append(r, r[1]), n + 1, 0)
                               = reduceLen(graph.nodes, selected', n + 1, 0)
                          /\ reduceLen(graph.nodes, Append(b, b[1]), n + 1, 0)
                               = reduceLen(graph.nodes, selected', n + 1, 0)]_vars

\* A closed selection that starts away from node 0 and is not the stored
\* optimal tour has scored, in a round that also has longer tours.
C9_Witness ==
    /\ game = "tsp"
    /\ pc = "play"
    /\ score = 1
    /\ nodeLen(graph) = 4
    /\ Len(selected) = 5
    /\ selected[1] # 0
    /\ selected # graph.optimal
    /\ CycleLen(graph.nodes, SubSeq(selected, 1, 4)) = graph.optimalLen
    /\ \E p \in Orderings(4) : CycleLen(graph.nodes, p) > graph.optimalLen

\* C10: a formula generateFormula returns has exactly numClauses clauses, each
\* of three literals over three different variables of 0..numVars-1, and the
\* assignment returned with it satisfies every clause.
C10_FormulaWellFormedAndSatisfied ==
    (game = "sat" /\ pc = "returned") =>
        LET f == out.value IN
        /\ f.numVars = graph.numVars
        /\ DOMAIN f.assignment = 0..(f.numVars - 1)
        /\ Len(f.clauses) = graph.numClauses
        /\ \A c \in 1..Len(f.clauses) :
               LET clause == f.clauses[c] IN
               /\ Len(clause) = 3
               /\ \A i \in 1..3 : clause[i].var \in 0..(f.numVars - 1)
               /\ \A i \in 1..3 : \A j \in 1..3 : clause[i].var = clause[j].var => i = j
               /\ \E i \in 1..3 : f.assignment[clause[i].var] # clause[i].neg

\* A formula of two clauses has been returned in which one clause is satisfied
\* by a single literal and another has no negated literal.
C10_Witness ==
    /\ game = "sat"
    /\ pc = "returned"
    /\ Len(out.value.clauses) = 2
    /\ \E c \in 1..2 :
           Cardinality({i \in 1..3 : out.value.assignment[out.value.clauses[c][i].var]
                                        # out.value.clauses[c][i].neg}) = 1
    /\ \E c \in 1..2 : \A i \in 1..3 : ~out.value.clauses[c][i].neg

\* C11: the default selection never wins a freshly generated instance: the
\* vertex cover and independent set generators return k >= 1 and the empty
\* selection fails their win check, and the all-false assignment leaves a
\* clause of the returned 3-SAT formula unsatisfied.
C11_NoTrivialWin ==
    /\ (game = "vc" /\ pc \in {"returned", "mounted"}) =>
           (graph.k >= 1 /\ ~vcWins(graph, emptySelection))
    /\ (game = "is" /\ pc \in {"returned", "mounted"}) =>
           (graph.k >= 1 /\ ~isWins(graph, emptySelection))
    /\ (game = "sat" /\ pc = "returned") =>
           ~sat(out.value.clauses, allFalse(out.value.numVars))

\* The vertex cover generator has returned the single edge a draw without
\* edges is given, on the largest node count.
C11_Witness ==
    /\ game = "vc"
    /\ pc = "returned"
    /\ attempt = 0
    /\ nodeLen(graph) = MaxNodes
    /\ graph.edges = <<Edge(0, 1)>>
    /\ graph.k = 1

\* The sum of the values at the indices of S.
RECURSIVE SumOver(_, _)
SumOver(values, S) ==
    IF S = {} THEN 0
    ELSE LET i == CHOOSE x \in S : TRUE IN values[i] + SumOver(values, S \ {i})

\* C12: the target of a subset sum instance is the sum of the values at the
\* non-empty set of indices of its mask, and a toggle scores exactly when the
\* values selected after it sum to the target, whichever subset that is.
C12_SubsetSumSolved ==
    /\ [](game = "subsetsum" =>
            /\ {i \in DOMAIN graph.mask : graph.mask[i]} # {}
            /\ DOMAIN graph.mask = DOMAIN graph.values
            /\ graph.target = SumOver(graph.values, {i \in DOMAIN graph.mask : graph.mask[i]}))
    /\ [][(game = "subsetsum" /\ selected' # selected /\ graph' = graph)
             => ((score' = score + 1)
                    <=> (SumOver(graph.values, {i \in DOMAIN selected' : selected'[i]})
                            = graph.target))]_vars

\* The values 4, 13, 20 with target 37 and all three selected have scored.
C12_Witness ==
    /\ game = "subsetsum"
    /\ graph.values = ssValues(3, <<4, 13, 20>>)
    /\ graph.target = 37
    /\ \A i \in DOMAIN selected : selected[i]
    /\ score = 1
    /\ pending = 1

\* A selection other than the mask has scored: 17 alone where the mask is 4 and 13.
C12_WitnessOtherSubset ==
    /\ game = "subsetsum"
    /\ graph.target = 17
    /\ {i \in DOMAIN graph.mask : graph.mask[i]} # {i \in DOMAIN selected : selected[i]}
    /\ score = 1
    /\ pending = 1

\* C13: every problem generatePartitionProblem returns has a mask that is
\* neither all true nor all false, every value within [minValue, maxValue],
\* and the values at the mask's true positions sum to the same as the rest.
C13_PartitionProblem ==
    (game = "partition" /\ pc = "returned") =>
        LET values == out.value.values
            mask == out.value.mask
            T == {i \in DOMAIN mask : mask[i]}
            F == {i \in DOMAIN mask : ~mask[i]}
        IN /\ DOMAIN values = DOMAIN mask
           /\ T # {} /\ F # {}
           /\ \A i \in DOMAIN values : values[i] >= minValue /\ values[i] <= PartMaxValue
           /\ SumOver(values, T) = SumOver(values, F)

\* A problem returned whose other side has several values, the last derived.
C13_Witness ==
    /\ game = "partition" /\ pc = "returned"
    /\ Cardinality({i \in DOMAIN out.value.mask : ~out.value.mask[i]}) >= 2
    /\ Cardinality({i \in DOMAIN out.value.mask : out.value.mask[i]}) >= 2
    /\ \E i, j \in DOMAIN out.value.values : out.value.values[i] # out.value.values[j]

\* C14: in the vertex cover game a selection wins if and only if every edge
\* has a selected endpoint and the selection has k nodes.  On the path 0 - 1 - 2
\* the solver gives k = 1 and the witness {1}, the selection {1} wins and the
\* selection {0, 2} covers both edges and does not win.
C14_VertexCoverWin ==
    /\ []((game = "vc" /\ nodeLen(graph) = 3
           /\ graph.edges = <<Edge(0, 1), Edge(1, 2)>>) =>
            /\ graph.k = 1
            /\ correct = {1}
            /\ vcWins(graph, {1})
            /\ IsCover(graph.edges, {0, 2})
            /\ ~vcWins(graph, {0, 2}))
    /\ [][(game = "vc" /\ out'.fn = "handleNodeClick" /\ selected' # selected) =>
            ((score' = score + 1) <=>
                (IsCover(graph.edges, selected') /\ Cardinality(selected') = graph.k))]_vars

\* The selection {1} has just won on the path 0 - 1 - 2.
C14_Witness ==
    /\ game = "vc" /\ nodeLen(graph) = 3
    /\ graph.edges = <<Edge(0, 1), Edge(1, 2)>>
    /\ selected = {1}
    /\ score = 1
    /\ pending = 1

\* The default selection of the instance installed: an empty Set, an array
\* of false.
DefaultSelection ==
    IF game = "vc" THEN selected = {}
    ELSE /\ DOMAIN selected = DOMAIN graph.values
         /\ \A i \in DOMAIN selected : ~selected[i]

\* C15: on the installation of an instance (the delayed advance after a win,
\* or Retry) the selection is reset to its default, and the selection of the
\* previous instance is never scored against the new one: the delayed advance
\* leaves the score as it is and Retry leaves it at 0.
C15_InstallDoesNotScore ==
    /\ [](out.fn \in {"startNext", "setProblem", "handleRetry"} => DefaultSelection)
    /\ [][out'.fn \in {"startNext", "setProblem"} => score' = score]_vars
    /\ [][out'.fn = "handleRetry" => score' = 0]_vars

\* The same statement for each game alone.
C15_VertexCover == [][(game = "vc" /\ out'.fn = "startNext") => score' = score]_vars

C15_VertexCoverRetry == [][(game = "vc" /\ out'.fn = "handleRetry") => score' = 0]_vars

C15_Partition == [][(game = "partition" /\ out'.fn = "setProblem") => score' = score]_vars

C15_SubsetSum == [][(game = "subsetsum" /\ out'.fn = "setProblem") => score' = score]_vars

\* C16: the score is incremented once per solved instance: while an advance
\* scheduled by a win is waiting, no toggle increments the score again or
\* schedules a second advance.
C16_ScoreOncePerSolve ==
    /\ [](pending <= 1)
    /\ [][(pending > 0 /\ out'.fn = "handleToggle") =>
            (score' = score /\ pending' = pending)]_vars

\* C17: every generation call terminates after a bounded number of attempts,
\* whatever the random source yields: the placement loop of planarLayout ends
\* and the call returns.
C17_PlacementTerminates == <>(game = "layout" => pc = "returned")

\* C18: every graph a uniform-random-edge generator returns (generateGraph of
\* the vertex cover, independent set and clique games, generate3ColorableGraph)
\* has at least one edge.
C18_AtLeastOneEdge ==
    (/\ pc \in {"returned", "mounted"}
     /\ game \in {"vc", "is", "clique", "color"}
     /\ graph.nodes = idNodes(nodeLen(graph))) => Len(graph.edges) >= 1

\* The same statement without generate3ColorableGraph.
C18_GenerateGraph == game # "color" => C18_AtLeastOneEdge

\* The nodes reached from the nodes of S along the edges.
RECURSIVE ReachFrom(_, _)
ReachFrom(edges, S) ==
    LET T == S \cup {edges[k].v : k \in {m \in 1..Len(edges) : edges[m].u \in S}}
                \cup {edges[k].u : k \in {m \in 1..Len(edges) : edges[m].v \in S}}
    IN IF T = S THEN S ELSE ReachFrom(edges, T)

IsConnected(n, edges) == ReachFrom(edges, {0}) = 0..(n - 1)

\* C19: every graph generatePlanarGraph returns is connected.
C19_PlanarConnected ==
    (game = "planar" /\ pc = "returned") => IsConnected(nodeLen(graph), graph.edges)

\* The stepwise loop and the loop taken as a whole build the same edges.
PlanarLoopAgrees ==
    (game = "planar" /\ pc = "returned") =>
        graph.edges = planarEdges(graph.nodes, nodeLen(graph))

Sign(a) == IF a > 0 THEN 1 ELSE IF a < 0 THEN -1 ELSE 0

\* The cross product (B - A) x (C - A).
Cross(A, B, C) == (B.x - A.x) * (C.y - A.y) - (B.y - A.y) * (C.x - A.x)

\* Segments AB and CD properly cross: C and D lie strictly on opposite sides
\* of AB, and A and B strictly on opposite sides of CD.
ProperlyCross(A, B, C, D) ==
    /\ Sign(Cross(A, B, C)) # 0 /\ Sign(Cross(A, B, C)) = -Sign(Cross(A, B, D))
    /\ Sign(Cross(C, D, A)) # 0 /\ Sign(Cross(C, D, A)) = -Sign(Cross(C, D, B))

----------------------------------------------------------------------------
\* Well-formed instances.

\* nodes[i].id = i for the ids 0..n-1, every edge joins two distinct ids of
\* 0..n-1, and no unordered pair is in the edge list twice.
WellFormed(g) ==
    LET n == Cardinality(DOMAIN g.nodes) IN
    /\ DOMAIN g.nodes = 0..(n - 1)
    /\ \A i \in DOMAIN g.nodes : g.nodes[i].id = i
    /\ \A a \in 1..Len(g.edges) :
           /\ g.edges[a].u \in 0..(n - 1)
           /\ g.edges[a].v \in 0..(n - 1)
           /\ g.edges[a].u # g.edges[a].v
    /\ \A a \in 1..Len(g.edges) : \A b \in 1..Len(g.edges) :
           a # b => {g.edges[a].u, g.edges[a].v} # {g.edges[b].u, g.edges[b].v}

----------------------------------------------------------------------------
\* The retry loops of the generators.

\* C30: in generateGraph of the vertex cover, independent set and clique games
\* and in generateHamiltonianGraph the acceptance test passes in the first
\* pass of the retry loop whatever the random source yields: the loop never
\* goes round again and the fallback instance is never what is returned.
C30_FirstAttemptAccepted ==
    (game \in {"vc", "is", "clique", "ham"}
         /\ pc \in {"generateGraph", "generateHamiltonianGraph", "returned", "mounted"})
        => attempt = 0

\* The clique generator returned an instance whose only edge is the forced
\* one, or the Hamiltonian generator returned a bare cycle.
C30_Witness ==
    /\ pc = "returned"
    /\ attempt = 0
    /\ \/ game = "clique" /\ nodeLen(graph) > 2 /\ graph.edges = <<Edge(0, 1)>> /\ graph.k = 2
       \/ game = "ham" /\ Len(graph.edges) = nodeLen(graph) /\ nodeLen(graph) > 3

----------------------------------------------------------------------------
\* The game-over view.

\* C22: whenever a round of the Hamiltonian cycle game has ended by timeout
\* (gameOver is true), the view shows the instance's witness: the edges drawn
\* bold are the edges of graph.cycle, not the edges of the player's selection.
C22_TimeoutRevealsWitness ==
    (game = "ham" /\ gameOver) => hamRender.bold = correctEdges(graph.cycle)

----------------------------------------------------------------------------
\* Retry.

\* C23: pressing Retry in a gameOver state of the 3-SAT game leaves a live
\* round: gameOver is false, the score is 0, timeLeft is the full TIMER, the
\* selection is all false and a generated formula is installed, whatever the
\* score was when the time ran out.
C23_RetryStartsLiveRound ==
    [][(game = "sat" /\ gameOver /\ out'.fn = "handleRetry")
           => /\ gameOver' = FALSE
              /\ score' = 0
              /\ timeLeft' = satTIMER
              /\ selected' = allFalse(graph'.numVars)
              /\ graph' \in SatRounds]_vars

\* The same for the part of the claim the score decides: Retry pressed with a
\* non-zero score, no toggle since the last formula and no timeout callback
\* waiting leaves gameOver false.
C23_RetryAfterScoring ==
    [][(game = "sat" /\ gameOver /\ score # 0 /\ ~hasInteracted /\ pending = 0
            /\ out'.fn = "handleRetry")
           => gameOver' = FALSE]_vars

----------------------------------------------------------------------------
\* The selection limit of the vertex cover game.

\* C24: a click never grows the selection beyond k nodes.  The selection holds
\* at most graph.k nodes in every state; a click in a live round either removes the
\* clicked node, or adds it while fewer than k nodes are selected, or (an
\* unselected node clicked with k nodes selected) leaves the selection as it
\* is and raises the error flash.
C24_SelectionAtMostK ==
    /\ [](game = "vc" /\ pc = "play" => Cardinality(selected) <= graph.k)
    /\ [][(game = "vc" /\ ~gameOver /\ ~showHelp /\ out'.fn = "handleNodeClick")
              => \/ \E id \in selected :
                        selected' = selected \ {id} /\ errorFlash' = errorFlash
                 \/ \E id \in DOMAIN graph.nodes \ selected :
                        /\ Cardinality(selected) < graph.k
                        /\ selected' = selected \cup {id}
                        /\ errorFlash' = errorFlash
                 \/ /\ Cardinality(selected) = graph.k
                    /\ selected # DOMAIN graph.nodes
                    /\ selected' = selected
                    /\ errorFlash']_vars

\* A click at the limit has flashed: k nodes are selected, none was added, and
\* the selection is not a winning one.
C24_Witness ==
    /\ game = "vc" /\ pc = "play"
    /\ out.fn = "handleNodeClick"
    /\ errorFlash
    /\ graph.k >= 1
    /\ Cardinality(selected) = graph.k
    /\ ~gameOver
    /\ pending = 0

----------------------------------------------------------------------------
\* The conflict edge of the independent set game.

\* C25: whenever blockedEdgeIdx is not null it is the index of an edge of the
\* current graph whose two endpoints are both in the current selection; right
\* after a node is added it is the lowest-index edge joining that node to
\* another selected node, or null when there is none.
C25_ConflictEdge ==
    /\ [](game = "is" /\ pc = "play" /\ blockedEdgeIdx # null
              => /\ blockedEdgeIdx \in 0..(Len(graph.edges) - 1)
                 /\ graph.edges[blockedEdgeIdx + 1].u \in selected
                 /\ graph.edges[blockedEdgeIdx + 1].v \in selected)
    /\ [][(game = "is" /\ out'.fn = "handleNodeClick")
              => \A id \in selected' \ selected :
                     LET joins == {e \in 0..(Len(graph.edges) - 1) :
                                      \/ graph.edges[e + 1].u = id
                                             /\ graph.edges[e + 1].v \in selected
                                      \/ graph.edges[e + 1].v = id
                                             /\ graph.edges[e + 1].u \in selected}
                     IN IF joins = {} THEN blockedEdgeIdx' = null
                        ELSE /\ blockedEdgeIdx' \in joins
                             /\ \A e \in joins : blockedEdgeIdx' <= e]_vars

\* The same within one instance: the part of the claim that holds between two
\* installations.
C25_ConflictEdgeWithinRound ==
    [][(game = "is" /\ out'.fn = "handleNodeClick" /\ blockedEdgeIdx' # null)
           => /\ blockedEdgeIdx' \in 0..(Len(graph'.edges) - 1)
              /\ graph'.edges[blockedEdgeIdx' + 1].u \in selected'
              /\ graph'.edges[blockedEdgeIdx' + 1].v \in selected']_vars

----------------------------------------------------------------------------
\* The countdown.

\* The full TIMER of the running game.
fullTimer ==
    CASE game = "ham" -> hamTIMER
      [] game = "vc" -> vcTIMER
      [] game = "sat" -> satTIMER
      [] game = "partition" -> partTIMER

\* A step that installs a new instance: startNext or Retry (in the Hamiltonian
\* cycle game startNext is the step that takes a timeout callback off the queue).
InstallStep ==
    \/ game = "ham" /\ pending' = pending - 1
    \/ /\ game \in {"vc", "sat", "partition"}
       /\ out'.fn \in {"startNext", "setFormula", "setProblem", "handleRetry"}

\* A tick of the countdown of a live round.
TickStep ==
    /\ timeLeft' = timeLeft - 1
    /\ ~gameOver /\ ~showHelp /\ ~showCorrect

\* C26 as stated: within one round the countdown never increases.  timeLeft
\* changes only by a tick of one second in a live round, or by being set to
\* the full TIMER when a new instance is installed, never by an action that
\* keeps the current instance.
C26_CountdownNeverRefilled ==
    [][\/ timeLeft' = timeLeft
       \/ TickStep
       \/ timeLeft' = fullTimer /\ InstallStep]_vars

\* C26 as amended: the same, except that the Reset button of the Hamiltonian
\* cycle game (resetRound) sets timeLeft to the full TIMER on the current
\* instance, with the selection emptied.
C26_CountdownRefilledByInstallOrReset ==
    [][\/ timeLeft' = timeLeft
       \/ TickStep
       \/ timeLeft' = fullTimer /\ InstallStep
       \/ /\ game = "ham"
          /\ timeLeft' = hamTIMER
          /\ graph' = graph /\ selected' = <<>> /\ ~showCorrect'
          /\ UNCHANGED <<score, gameOver, pending>>]_vars

\* The time of a Hamiltonian round ran out and Reset has set it to TIMER
\* again; the countdown of a 3-SAT round has ticked.
C26_Witness ==
    \/ game = "ham" /\ gameOver /\ timeLeft = hamTIMER
    \/ game = "sat" /\ ~gameOver /\ out.fn = "tick" /\ timeLeft = satTIMER - 2

\* C27: in the Hamiltonian cycle game time-up is not a terminal state: in
\* every state with gameOver true some player action (a node click or the
\* Reset button) starts a live round.
C27_TimeUpNotTerminal ==
    (game = "ham" /\ gameOver)
        => ENABLED ((HamNodeClick \/ HamResetRound) /\ ~gameOver')

\* C28: while gameOver is true or the help overlay is shown, a node click or an
\* item or variable toggle leaves the selection unchanged, and while the help
\* overlay is shown the countdown does not go down.
C28_IgnoredWhileOverOrHelp ==
    /\ [][((gameOver \/ showHelp) /\ out'.fn \in {"handleNodeClick", "handleToggle"})
             => selected' = selected]_vars
    /\ [][showHelp => timeLeft' >= timeLeft]_vars

\* A node of the vertex cover game was clicked with the time up and the help
\* overlay shown, and the selection made before is still there.
C28_Witness ==
    /\ game = "vc"
    /\ gameOver /\ showHelp
    /\ out.fn = "handleNodeClick"
    /\ selected # {}

\* C29: when timeLeft reaches 0 in a live round the game enters gameOver and
\* highScore becomes the larger of highScore and score; highScore never
\* decreases, whatever the rounds, wins, timeouts and retries; and in every
\* gameOver state highScore is at least score.
C29_HighScoreIsMaximum ==
    /\ [][(~gameOver /\ timeLeft > 0 /\ timeLeft' <= 0)
             => (gameOver' /\ highScore' = IF highScore >= score THEN highScore ELSE score)]_vars
    /\ [][highScore' >= highScore]_vars
    /\ [](gameOver => highScore >= score)

\* The time of a round ran out on a score lower than the high score of an
\* earlier game.
C29_Witness ==
    /\ gameOver
    /\ out.fn = "timeUp"
    /\ timeLeft = 0
    /\ highScore > score

====
